---- MODULE Spec2Model ----
(***************************************************************************)
(* A state-machine model of the retrieval pipeline of OpenShrimp-CORA:     *)
(* backend/core/rag/{processors,cache,vector_stores,engine}.py.            *)
(*                                                                         *)
(* Representation.                                                         *)
(*  - A Python str is a sequence of one-character strings.                 *)
(*  - A float score in [-1, 1] is the integer score * SCALE; every weight  *)
(*    the code uses (0.7, 0.3, 0.6, 0.2, len/1000, matches/terms, cosines  *)
(*    of the vectors below) is exact at that scale.                        *)
(*  - An embedding is a tuple of integers; None is the empty tuple NoVec   *)
(*    (the code tests embeddings by truthiness, so [] and None agree).     *)
(***************************************************************************)
EXTENDS Integers, Sequences, FiniteSets, TLC

\* ---------------------------------------------------------------- bounds
\* Largest value of stats['total_documents'] (and of its negation): the
\* counter moves by one on every successful add_document / delete_document.
MaxOps == 2
\* Documents are ingested while RAGEngine.stats['total_chunks'] is below this.
MaxChunkCount == 3
\* Largest value of stats['total_queries'].
MaxQueries == 1
\* Largest top_k a caller asks for.
MaxTopK == 3
\* Largest configured cache capacity (MemoryCacheBackend.max_entries).
MaxEntries == 2
\* Largest value of the backend counters total_requests and sets.
MaxCacheOps == 4
\* Longest list of texts passed to embed_batch.
MaxBatch == 2
\* Callers of add_document with a per-call config.
MaxCallers == 2

\* ------------------------------------------------------ program constants
\* _hash_text hashes text[:10000].
HashLimit == 10000
\* BaseVectorStore.list_chunks(limit=100): the default page size.
DefaultListLimit == 100
\* StandardRetriever._keyword_search: list_chunks(limit=1000).
KeywordListLimit == 1000

\* Fixed-point unit of a score: lcm of the denominators 25 (cosines), 6
\* (keyword ratios), 10 (fusion weights), 5000 (length factor).
SCALE == 15 * 1000

\* ------------------------------------------------------------ str helpers
Min(a, b) == IF a < b THEN a ELSE b
Max(a, b) == IF a > b THEN a ELSE b

IsSpace(c) == c \in {" ", "\n"}

\* str.lower() on the alphabet of the model.
LowerChar(c) == IF c = "A" THEN "a" ELSE IF c = "B" THEN "b" ELSE c
Lower(s) == [i \in 1..Len(s) |-> LowerChar(s[i])]

\* Python slice s[lo:hi] with 0-based lo, hi (hi clamped to len(s)).
Slice(s, lo, hi) == SubSeq(s, lo + 1, Min(hi, Len(s)))

RECURSIVE LStrip(_)
LStrip(s) == IF s # <<>> /\ IsSpace(Head(s)) THEN LStrip(Tail(s)) ELSE s
RECURSIVE RStrip(_)
RStrip(s) ==
  IF s # <<>> /\ IsSpace(s[Len(s)]) THEN RStrip(SubSeq(s, 1, Len(s) - 1)) ELSE s
\* str.strip()
Strip(s) == RStrip(LStrip(s))

\* re.sub(r'\s+', ' ', text): every run of whitespace becomes one space.
CollapseWs(s) ==
  LET kept == SelectSeq([i \in 1..Len(s) |-> i],
                        LAMBDA i : ~IsSpace(s[i]) \/ i = 1 \/ ~IsSpace(s[i - 1]))
  IN [k \in 1..Len(kept) |-> IF IsSpace(s[kept[k]]) THEN " " ELSE s[kept[k]]]

\* str.split(): the maximal runs of non-whitespace, in order.
RECURSIVE SplitFrom(_, _)
SplitFrom(s, cur) ==
  IF s = <<>> THEN (IF cur = <<>> THEN <<>> ELSE <<cur>>)
  ELSE IF IsSpace(Head(s))
       THEN (IF cur = <<>> THEN <<>> ELSE <<cur>>) \o SplitFrom(Tail(s), <<>>)
       ELSE SplitFrom(Tail(s), Append(cur, Head(s)))
Split(s) == SplitFrom(s, <<>>)

\* Python `sub in s` for strings.
Contains(sub, s) ==
  \E i \in 0..(Len(s) - Len(sub)) : SubSeq(s, i + 1, i + Len(sub)) = sub

\* str.rfind(ch, start, end): highest 0-based index in [start, end) or -1.
RFind(s, ch, start, end) ==
  LET hits == {i \in start..(Min(end, Len(s)) - 1) : s[i + 1] = ch}
  IN IF hits = {} THEN -1 ELSE CHOOSE i \in hits : \A j \in hits : j <= i

\* ' '.join(parts)
RECURSIVE JoinSpace(_)
JoinSpace(parts) ==
  IF parts = <<>> THEN <<>>
  ELSE IF Len(parts) = 1 THEN parts[1]
  ELSE parts[1] \o <<" ">> \o JoinSpace(Tail(parts))

RECURSIVE SumSeq(_)
SumSeq(s) == IF s = <<>> THEN 0 ELSE Head(s) + SumSeq(Tail(s))


\* ------------------------------------------------------------- embeddings
NoVec == <<>>

\* BaseEmbeddingProvider._generate_mock_embedding: a deterministic function
\* of the text.  The directions are chosen so that every cosine is rational.
CountChar(s, c) == Cardinality({i \in 1..Len(s) : s[i] = c})
MockVector(na, nb, len) ==
  IF na > nb THEN <<1, 0>>
  ELSE IF nb > na THEN <<0, 1>>
  ELSE IF len % 2 = 0 THEN <<3, 4>> ELSE <<4, 3>>
_generate_mock_embedding(text) ==
  MockVector(CountChar(text, "a"), CountChar(text, "b"), Len(text))

Dot(v1, v2) == SumSeq([i \in 1..Len(v1) |-> v1[i] * v2[i]])
\* x ** 0.5 for the perfect squares the model's vectors produce.
ISqrt(n) == CHOOSE r \in 0..n : r * r = n

\* _cosine_similarity (the three stores and the retriever share its text).
_cosine_similarity(vec1, vec2) ==
  IF Len(vec1) # Len(vec2) THEN 0
  ELSE LET norm1 == ISqrt(Dot(vec1, vec1))
           norm2 == ISqrt(Dot(vec2, vec2))
       IN IF norm1 = 0 \/ norm2 = 0 THEN 0
          ELSE (Dot(vec1, vec2) * SCALE) \div (norm1 * norm2)

\* ---------------------------------------------------------------- chunker
\* DocumentChunk.  chunk_id f"{doc_id}_chunk_{i}" is the pair <<doc_id, i>>.
ChunkId(doc_id, i) == <<doc_id, i>>

MkChunk(doc_id, idx, content, start, end, proc, text_len) ==
  [chunk_id |-> ChunkId(doc_id, idx), doc_id |-> doc_id, content |-> content,
   chunk_index |-> idx, start_char |-> start, end_char |-> end,
   strategy |-> proc.strategy, original_length |-> text_len,
   overlap_with_prev |-> IF idx > 0 THEN proc.chunk_overlap ELSE 0,
   embedding |-> NoVec]

\* TextDocumentProcessor._preprocess_text (remove_special_chars unset).
_preprocess_text(text) == Strip(CollapseWs(text))

\* The window start the loop stops short of the window it has just cut:
\* the start does not move.
NextStartNotPast(start, end, proc) == Max(start, end - proc.chunk_overlap)

\* start = max(start + 1, end - self.chunk_overlap)
NextStart(start, end, proc) == Max(start + 1, end - proc.chunk_overlap)

\* One iteration of the while loop of _chunk_by_fixed_size on the loop
\* state [start, chunk_index, chunks]; the state is left alone once the
\* loop condition start < len(text) fails.
FixedSizeStep(text, doc_id, proc, s) ==
  IF ~(s.start < Len(text)) THEN s
  ELSE LET start == s.start
           end0 == start + proc.chunk_size
           space_pos == RFind(text, " ", start, end0)
           end == IF end0 < Len(text) /\ space_pos > start THEN space_pos ELSE end0
           chunk_content == Strip(Slice(text, start, end))
           keep == Len(chunk_content) >= proc.min_chunk_size
       IN [start |-> NextStart(start, end, proc),
           chunk_index |-> IF keep THEN s.chunk_index + 1 ELSE s.chunk_index,
           chunks |-> IF keep
                      THEN Append(s.chunks, MkChunk(doc_id, s.chunk_index, chunk_content,
                                                    start, end, proc, Len(text)))
                      ELSE s.chunks]

\* n iterations of the while loop, unfolded by halves.
RECURSIVE FixedSizeLoop(_, _, _, _, _)
FixedSizeLoop(text, doc_id, proc, n, s) ==
  IF n = 0 \/ ~(s.start < Len(text)) THEN s
  ELSE IF n = 1 THEN FixedSizeStep(text, doc_id, proc, s)
  ELSE FixedSizeLoop(text, doc_id, proc, n - (n \div 2),
                     FixedSizeLoop(text, doc_id, proc, n \div 2, s))

\* start grows by at least one per iteration, so the loop has ended after
\* len(text) of them.
_chunk_by_fixed_size(text, doc_id, proc) ==
  FixedSizeLoop(text, doc_id, proc, Len(text),
                [start |-> 0, chunk_index |-> 0, chunks |-> <<>>]).chunks

SupportedTypes == {"text", "markdown"}

\* _chunk_by_paragraph.  The text it is given has been through
\* _preprocess_text, which leaves no "\n\n" in it: the text is the one
\* paragraph, and the loop's `and current_chunk` keeps it whole whatever
\* chunk_size is.
_chunk_by_paragraph(text, doc_id, proc) ==
  IF Strip(text) = <<>> THEN <<>>
  ELSE << [chunk_id |-> ChunkId(doc_id, 0), doc_id |-> doc_id, content |-> Strip(text),
           chunk_index |-> 0, start_char |-> 0, end_char |-> Len(text),
           strategy |-> proc.strategy, paragraph_count |-> 1, embedding |-> NoVec] >>

\* TextDocumentProcessor._profiles
_profiles ==
  [code |-> [chunk_size |-> 400, overlap |-> 100],
   report |-> [chunk_size |-> 1000, overlap |-> 120],
   table |-> [chunk_size |-> 180, overlap |-> 30]]

\* The substrings of the content that make _infer_profile answer 'code'.
CodeKeywords ==
  { <<"d", "e", "f", " ">>, <<"c", "l", "a", "s", "s", " ">>, <<"{">>, <<"}">>,
    <<"f", "u", "n", "c", "t", "i", "o", "n">>,
    <<"#", "i", "n", "c", "l", "u", "d", "e">> }

\* _infer_profile of a document without metadata and without title.
_infer_profile(doc) ==
  IF doc.doc_type \in {"json", "csv"} THEN "table"
  ELSE IF \E k \in CodeKeywords : Contains(k, Lower(Slice(doc.content, 0, 2000)))
       THEN "code"
       ELSE "report"

\* process_document, lines 61-67: with dynamic_chunking the processor's
\* own chunk_size and chunk_overlap are set from the inferred profile.
ApplyProfile(doc, proc) ==
  IF proc.dynamic_chunking
  THEN [proc EXCEPT
          !.chunk_size = Max(proc.min_chunk_size,
                             Min(_profiles[_infer_profile(doc)].chunk_size,
                                 proc.max_chunk_size)),
          !.chunk_overlap = _profiles[_infer_profile(doc)].overlap]
  ELSE proc

\* The processor as process_document leaves it.
ProcessorAfter(doc, proc) ==
  IF doc.doc_type \notin SupportedTypes THEN proc ELSE ApplyProfile(doc, proc)

\* The dispatch on self.strategy, for the two strategies of the model.
ChunkBy(text, doc_id, proc) ==
  CASE proc.strategy = "fixed_size" -> _chunk_by_fixed_size(text, doc_id, proc)
    [] proc.strategy = "paragraph" -> _chunk_by_paragraph(text, doc_id, proc)

\* process_document cutting with the sizes the processor held on entry,
\* the profile of the document taking effect for the next call only.
ProcessWithStaleProfile(doc, proc) ==
  IF doc.doc_type \notin SupportedTypes
  THEN [raised |-> TRUE, chunks |-> <<>>]
  ELSE [raised |-> FALSE, chunks |-> ChunkBy(_preprocess_text(doc.content), doc.doc_id, proc)]

\* TextDocumentProcessor.process_document: [raised, chunks].
process_document(doc, proc) ==
  IF doc.doc_type \notin SupportedTypes
  THEN [raised |-> TRUE, chunks |-> <<>>]
  ELSE [raised |-> FALSE,
        chunks |-> ChunkBy(_preprocess_text(doc.content), doc.doc_id, ApplyProfile(doc, proc))]


\* ------------------------------------------------- InMemoryVectorStore
\* self.chunks is a dict: a sequence of chunks in insertion order, one per
\* chunk_id; assigning an existing key keeps its position.
HasId(store, id) == \E i \in 1..Len(store) : store[i].chunk_id = id

\* The chunk the dict holds under id after `for chunk in new:
\* self.chunks[chunk.chunk_id] = chunk`: the last of new with that id.
LastWithId(new, id) ==
  new[CHOOSE i \in 1..Len(new) :
        /\ new[i].chunk_id = id
        /\ \A j \in (i + 1)..Len(new) : new[j].chunk_id # id]

\* add_chunks: existing keys keep their position and take the new value,
\* new keys are appended in the order of their first assignment.
add_chunks(store, new) ==
  LET fresh == SelectSeq([i \in 1..Len(new) |-> i],
                         LAMBDA i : /\ ~HasId(store, new[i].chunk_id)
                                    /\ \A j \in 1..(i - 1) : new[j].chunk_id # new[i].chunk_id)
  IN [i \in 1..Len(store) |->
        IF HasId(new, store[i].chunk_id) THEN LastWithId(new, store[i].chunk_id)
        ELSE store[i]]
     \o [k \in 1..Len(fresh) |-> LastWithId(new, new[fresh[k]].chunk_id)]

\* list_chunks(doc_id, limit, offset); doc_id "" is None (both are falsy).
list_chunks(store, doc_id, limit, offset) ==
  LET sel == IF doc_id # "" THEN SelectSeq(store, LAMBDA c : c.doc_id = doc_id)
             ELSE store
  IN Slice(sel, offset, offset + limit)

delete_chunks(store, ids) == SelectSeq(store, LAMBDA c : c.chunk_id \notin ids)

\* get_stats
StoreDocIds(store) == {store[i].doc_id : i \in 1..Len(store)}
get_stats(store) ==
  [total_chunks |-> Len(store), total_documents |-> Cardinality(StoreDocIds(store))]

\* _apply_filters: filters is a set of <<key, value>> pairs.
ChunkMetaKeys == {"strategy", "original_length"}
ChunkMeta(chunk, key) ==
  IF key = "strategy" THEN chunk.strategy ELSE chunk.original_length
_apply_filters(chunk, filters) ==
  \A f \in filters :
     IF f[1] = "doc_id" THEN chunk.doc_id = f[2]
     ELSE IF f[1] \in ChunkMetaKeys THEN ChunkMeta(chunk, f[1]) = f[2]
     ELSE TRUE

\* list.sort(key=score, reverse=True): stable, descending.
RECURSIVE InsertDesc(_, _)
InsertDesc(sorted, r) ==
  IF sorted = <<>> THEN <<r>>
  ELSE IF Head(sorted).score >= r.score
       THEN <<Head(sorted)>> \o InsertDesc(Tail(sorted), r)
       ELSE <<r>> \o sorted
RECURSIVE SortDescFrom(_, _)
SortDescFrom(acc, rest) ==
  IF rest = <<>> THEN acc ELSE SortDescFrom(InsertDesc(acc, Head(rest)), Tail(rest))
SortDesc(results) == SortDescFrom(<<>>, results)

\* for i, r in enumerate(results): r.rank = i
Rerank0(results) == [i \in 1..Len(results) |-> [results[i] EXCEPT !.rank = i - 1]]

MkResult(chunk, score, method, meta) ==
  [chunk |-> chunk, score |-> score, rank |-> 0,
   retrieval_method |-> method, metadata |-> meta]

\* InMemoryVectorStore.search
search(store, query_embedding, top_k, filters) ==
  LET cand == SelectSeq(store, LAMBDA c :
                 c.embedding # NoVec /\ (filters = {} \/ _apply_filters(c, filters)))
      sims == [i \in 1..Len(cand) |->
                 MkResult(cand[i], _cosine_similarity(query_embedding, cand[i].embedding),
                          "memory_cosine", {})]
  IN Rerank0(Slice(SortDesc(sims), 0, top_k))


\* InMemoryVectorStore.update_chunk: self.chunks[chunk.chunk_id] = chunk.
update_chunk(store, chunk) ==
  IF HasId(store, chunk.chunk_id)
  THEN [i \in 1..Len(store) |-> IF store[i].chunk_id = chunk.chunk_id THEN chunk ELSE store[i]]
  ELSE Append(store, chunk)

\* ---------------------------------------------------- FAISSVectorStore
\* The store is the record [vectors, rows]: vectors is the dict self.vectors
\* as a sequence of [chunk_id, vector] in insertion order (assigning an
\* existing key keeps its position), rows is the SQLite table chunks in
\* rowid order.  A statement executed on the one connection is visible to
\* every later statement, committed or not.
VectorPut(vectors, id, vec) ==
  IF \E i \in 1..Len(vectors) : vectors[i].chunk_id = id
  THEN [i \in 1..Len(vectors) |->
          IF vectors[i].chunk_id = id THEN [chunk_id |-> id, vector |-> vec] ELSE vectors[i]]
  ELSE Append(vectors, [chunk_id |-> id, vector |-> vec])

VectorDel(vectors, id) == SelectSeq(vectors, LAMBDA v : v.chunk_id # id)

\* The columns of a row: the chunk without its embedding and its overlap
\* fields; metadata goes through json.dumps / json.loads, which gives back
\* the str and int values the model's metadata holds.
RowColumns == {"chunk_id", "doc_id", "content", "chunk_index", "start_char", "end_char",
               "strategy", "original_length"}
RowOf(chunk) == [c \in RowColumns |-> chunk[c]]

\* INSERT OR REPLACE INTO chunks: a row of the same chunk_id is deleted and
\* the new row gets a fresh rowid.
InsertOrReplace(rows, row) ==
  Append(SelectSeq(rows, LAMBDA r : r.chunk_id # row.chunk_id), row)

\* DocumentChunk(... row ..., embedding=vec): the fields that are no columns
\* take their defaults.
ChunkOfRow(row, vec) ==
  [c \in RowColumns \cup {"embedding", "overlap_with_prev"} |->
     IF c = "embedding" THEN vec
     ELSE IF c = "overlap_with_prev" THEN 0
     ELSE row[c]]

\* FAISSVectorStore.add_chunks: [raised, store].  The loop stops at the
\* first chunk without an embedding, after storing the chunks before it.
RECURSIVE FAISS_add_chunks(_, _)
FAISS_add_chunks(f, new) ==
  IF new = <<>> THEN [raised |-> FALSE, store |-> f]
  ELSE IF Head(new).embedding = NoVec THEN [raised |-> TRUE, store |-> f]
  ELSE FAISS_add_chunks(
         [vectors |-> VectorPut(f.vectors, Head(new).chunk_id, Head(new).embedding),
          rows |-> InsertOrReplace(f.rows, RowOf(Head(new)))],
         Tail(new))

\* FAISSVectorStore.update_chunk: the vector is set whether or not the
\* table has the row; UPDATE changes content and metadata of that row.
FAISS_update_chunk(f, chunk) ==
  IF chunk.embedding = NoVec THEN [raised |-> TRUE, store |-> f]
  ELSE [raised |-> FALSE,
        store |-> [vectors |-> VectorPut(f.vectors, chunk.chunk_id, chunk.embedding),
                   rows |-> [i \in 1..Len(f.rows) |->
                               IF f.rows[i].chunk_id = chunk.chunk_id
                               THEN [f.rows[i] EXCEPT !.content = chunk.content,
                                                      !.strategy = chunk.strategy,
                                                      !.original_length = chunk.original_length]
                               ELSE f.rows[i]]]]

\* FAISSVectorStore.delete_chunks
FAISS_delete_chunks(f, ids) ==
  [vectors |-> SelectSeq(f.vectors, LAMBDA v : v.chunk_id \notin ids),
   rows |-> SelectSeq(f.rows, LAMBDA r : r.chunk_id \notin ids)]

\* SELECT * FROM chunks WHERE chunk_id = ?: the rows found (at most one).
RowsWithId(rows, id) == SelectSeq(rows, LAMBDA r : r.chunk_id = id)

\* FAISSVectorStore.search: every vector is scored, the list is sorted and
\* cut to top_k, and only then rows are looked up and filters applied; rank
\* is the position in the cut list.
FAISS_search(f, query_embedding, top_k, filters) ==
  LET similarities == [i \in 1..Len(f.vectors) |->
                         [chunk_id |-> f.vectors[i].chunk_id,
                          vector |-> f.vectors[i].vector,
                          score |-> _cosine_similarity(query_embedding, f.vectors[i].vector)]]
      top_similarities == Slice(SortDesc(similarities), 0, top_k)
      chunk_at(i) == ChunkOfRow(RowsWithId(f.rows, top_similarities[i].chunk_id)[1],
                                top_similarities[i].vector)
      kept == SelectSeq([i \in 1..Len(top_similarities) |-> i],
                        LAMBDA i : /\ RowsWithId(f.rows, top_similarities[i].chunk_id) # <<>>
                                   /\ (filters = {} \/ _apply_filters(chunk_at(i), filters)))
  IN [k \in 1..Len(kept) |->
        [MkResult(chunk_at(kept[k]), top_similarities[kept[k]].score, "faiss_cosine", {})
           EXCEPT !.rank = kept[k] - 1]]

\* --------------------------------------------------- ChromaVectorStore
\* The collection's three dicts vectors, metadata and documents are always
\* written and popped together: one sequence of entries [chunk_id, vector,
\* metadata, document] in insertion order.
ChromaMetaKeys == {"doc_id", "chunk_index", "start_char", "end_char",
                   "strategy", "original_length"}
ChromaEntry(chunk) ==
  [chunk_id |-> chunk.chunk_id, vector |-> chunk.embedding,
   metadata |-> [k \in ChromaMetaKeys |-> chunk[k]], document |-> chunk.content]

ChromaPut(col, entry) ==
  IF \E i \in 1..Len(col) : col[i].chunk_id = entry.chunk_id
  THEN [i \in 1..Len(col) |-> IF col[i].chunk_id = entry.chunk_id THEN entry ELSE col[i]]
  ELSE Append(col, entry)

\* ChromaVectorStore.add_chunks: [raised, store].
RECURSIVE Chroma_add_chunks(_, _)
Chroma_add_chunks(col, new) ==
  IF new = <<>> THEN [raised |-> FALSE, store |-> col]
  ELSE IF Head(new).embedding = NoVec THEN [raised |-> TRUE, store |-> col]
  ELSE Chroma_add_chunks(ChromaPut(col, ChromaEntry(Head(new))), Tail(new))

\* ChromaVectorStore.update_chunk
Chroma_update_chunk(col, chunk) ==
  IF chunk.embedding = NoVec THEN [raised |-> TRUE, store |-> col]
  ELSE [raised |-> FALSE, store |-> ChromaPut(col, ChromaEntry(chunk))]

\* ChromaVectorStore.delete_chunks
Chroma_delete_chunks(col, ids) == SelectSeq(col, LAMBDA e : e.chunk_id \notin ids)

\* ChromaVectorStore._apply_filters_to_metadata
_apply_filters_to_metadata(metadata, filters) ==
  \A f \in filters : ~(f[1] \in DOMAIN metadata /\ metadata[f[1]] # f[2])

\* The chunk search builds from an entry.
ChunkOfEntry(e) ==
  [c \in RowColumns \cup {"embedding", "overlap_with_prev"} |->
     IF c = "chunk_id" THEN e.chunk_id
     ELSE IF c = "content" THEN e.document
     ELSE IF c = "embedding" THEN e.vector
     ELSE IF c = "overlap_with_prev" THEN 0
     ELSE e.metadata[c]]

\* ChromaVectorStore.search: filters are applied before scoring.
Chroma_search(col, query_embedding, top_k, filters) ==
  LET cand == SelectSeq(col, LAMBDA e :
                 filters = {} \/ _apply_filters_to_metadata(e.metadata, filters))
      sims == [i \in 1..Len(cand) |->
                 MkResult(ChunkOfEntry(cand[i]),
                          _cosine_similarity(query_embedding, cand[i].vector),
                          "chroma_cosine", {})]
  IN Rerank0(Slice(SortDesc(sims), 0, top_k))


\* ---------------------------------------------------- StandardRetriever
\* _expand_query.  The model's "S" stands for the map's key and "f", "r",
\* "x" for its three synonyms; the other entries of expansion_map have
\* the same shape and no key in the model's alphabet.
ExpansionTerm == <<"S">>
ExpansionSynonyms == << <<"f">>, <<"r">>, <<"x">> >>
_expand_query(query) ==
  JoinSpace(<<query>> \o (IF Contains(ExpansionTerm, query) THEN ExpansionSynonyms ELSE <<>>))

\* sum(1 for term in query_terms if term in content_lower)
TermMatches(terms, content) ==
  Cardinality({i \in 1..Len(terms) : Contains(terms[i], Lower(content))})

\* _keyword_search (it passes no filters to the store).
_keyword_search(query, query_obj, store) ==
  LET all_chunks == list_chunks(store, "", KeywordListLimit, 0)
      query_terms == Split(Lower(query))
      hit == SelectSeq(all_chunks, LAMBDA c : TermMatches(query_terms, c.content) > 0)
      results == [i \in 1..Len(hit) |->
                    LET m == TermMatches(query_terms, hit[i].content)
                    IN MkResult(hit[i], (m * SCALE) \div Len(query_terms),
                                "keyword_search", {<<"keyword_matches", m>>})]
  IN Slice(Rerank0(SortDesc(results)), 0, query_obj.top_k)

\* _similarity_search
_similarity_search(query_embedding, query_obj, store) ==
  LET results == search(store, query_embedding, query_obj.top_k * 2, query_obj.filters)
  IN [i \in 1..Len(results) |->
        [results[i] EXCEPT !.retrieval_method = "similarity_search"]]

\* max(results, key=score): the first result of maximal score.
FirstMaxIndex(results) ==
  CHOOSE i \in 1..Len(results) :
     /\ \A j \in 1..Len(results) : results[j].score <= results[i].score
     /\ \A j \in 1..(i - 1) : results[j].score < results[i].score

RemoveAt(seq, i) == SubSeq(seq, 1, i - 1) \o SubSeq(seq, i + 1, Len(seq))

\* max_selected_sim of one candidate against the selected results.
MaxSelectedSim(candidate, selected) ==
  IF selected = <<>> \/ candidate.chunk.embedding = NoVec THEN 0
  ELSE LET sims == {_cosine_similarity(candidate.chunk.embedding,
                                       selected[i].chunk.embedding) :
                      i \in {j \in 1..Len(selected) : selected[j].chunk.embedding # NoVec}}
       IN IF sims = {} THEN 0
          ELSE Max(0, CHOOSE x \in sims : \A y \in sims : y <= x)

\* mmr_score = lambda * query_sim - (1 - lambda) * max_selected_sim,
\* lambda in tenths.
MmrScore(candidate, selected, lambda10) ==
  (lambda10 * candidate.score - (10 - lambda10) * MaxSelectedSim(candidate, selected)) \div 10

\* The while loop of _mmr_search: best_score starts at -1 and is replaced
\* only by a strictly greater score.
RECURSIVE MmrLoop(_, _, _, _)
MmrLoop(selected, remaining, top_k, lambda10) ==
  IF ~(Len(selected) < top_k /\ remaining # <<>>) THEN selected
  ELSE LET sc == [i \in 1..Len(remaining) |-> MmrScore(remaining[i], selected, lambda10)]
           ok == {i \in 1..Len(remaining) : sc[i] > -SCALE}
       IN IF ok = {} THEN selected
          ELSE LET b == CHOOSE i \in ok :
                           /\ \A j \in ok : sc[j] <= sc[i]
                           /\ \A j \in ok : j < i => sc[j] < sc[i]
                   best == [remaining[b] EXCEPT
                              !.retrieval_method = "mmr_search",
                              !.metadata = @ \cup {<<"mmr_score", sc[b]>>}]
               IN MmrLoop(Append(selected, best), RemoveAt(remaining, b), top_k, lambda10)

_mmr_search(query_embedding, query_obj, store, cfg) ==
  LET initial_results == search(store, query_embedding, query_obj.top_k * 3, query_obj.filters)
  IN IF initial_results = <<>> THEN <<>>
     ELSE LET b == FirstMaxIndex(initial_results)
          IN MmrLoop(<<initial_results[b]>>, RemoveAt(initial_results, b),
                     query_obj.top_k, cfg.mmr_lambda)

\* _merge_search_results with vector_weight 0.7 and keyword_weight 0.3.
ResultIndex(results, id) ==
  IF \E i \in 1..Len(results) : results[i].chunk.chunk_id = id
  THEN CHOOSE i \in 1..Len(results) : results[i].chunk.chunk_id = id
  ELSE 0

RECURSIVE MergeKeyword(_, _)
MergeKeyword(acc, keyword_results) ==
  IF keyword_results = <<>> THEN acc
  ELSE LET r == Head(keyword_results)
           k == ResultIndex(acc, r.chunk.chunk_id)
       IN MergeKeyword(
            IF k # 0
            THEN [acc EXCEPT ![k].score = @ + (r.score * 3) \div 10,
                             ![k].metadata = @ \cup {<<"hybrid_score", 1>>}]
            ELSE Append(acc, [r EXCEPT !.score = (@ * 3) \div 10]),
            Tail(keyword_results))

\* A merge that leaves the vector scores unweighted.
MergeUnweighted(vector_results, keyword_results) ==
  Rerank0(SortDesc(MergeKeyword(vector_results, keyword_results)))

_merge_search_results(vector_results, keyword_results) ==
  LET weighted == [i \in 1..Len(vector_results) |->
                     [vector_results[i] EXCEPT !.score = (@ * 7) \div 10]]
  IN Rerank0(SortDesc(MergeKeyword(weighted, keyword_results)))

\* _hybrid_search
_hybrid_search(query, query_embedding, query_obj, store) ==
  LET combined == _merge_search_results(
                     _similarity_search(query_embedding, query_obj, store),
                     _keyword_search(query, query_obj, store))
  IN Slice([i \in 1..Len(combined) |->
              [combined[i] EXCEPT !.retrieval_method = "hybrid_search"]],
           0, query_obj.top_k)

\* _semantic_hybrid_search
_semantic_hybrid_search(query, query_embedding, query_obj, store) ==
  _hybrid_search(query, query_embedding, query_obj, store)

\* _calculate_query_match
_calculate_query_match(content, query) ==
  LET query_terms == Split(Lower(query))
  IN IF query_terms = <<>> THEN 0
     ELSE (TermMatches(query_terms, content) * SCALE) \div Len(query_terms)

\* _rerank_results: 0.6 * score + 0.2 * min(len / 1000, 1) + 0.2 * match.
_rerank_results(results, query) ==
  LET rescored == [i \in 1..Len(results) |->
        LET content_length_factor == Min((Len(results[i].chunk.content) * SCALE) \div 1000, SCALE)
            query_match_factor == _calculate_query_match(results[i].chunk.content, query)
        IN [results[i] EXCEPT
              !.score = (@ * 6 + content_length_factor * 2 + query_match_factor * 2) \div 10,
              !.metadata = @ \cup {<<"reranked", 1>>}]]
  IN Rerank0(SortDesc(rescored))


\* query.strategy, as the RetrievalStrategy values.
Strategies == {"similarity", "mmr", "hybrid", "keyword", "semantic_hybrid"}

\* A dispatch whose vector strategies have no keyword branch.
DispatchWithoutDegrade(query, expanded_query, query_embedding, store, cfg) ==
  IF query.strategy = "keyword" THEN _keyword_search(expanded_query, query, store)
  ELSE IF query_embedding = NoVec THEN <<>>
  ELSE _similarity_search(query_embedding, query, store)

\* retrieve, lines 64-92: the dispatch on query.strategy; each branch tests
\* `query_embedding is not None`.
Dispatch(query, expanded_query, query_embedding, store, cfg) ==
  CASE query.strategy = "similarity" ->
         IF query_embedding # NoVec
         THEN _similarity_search(query_embedding, query, store)
         ELSE _keyword_search(expanded_query, query, store)
    [] query.strategy = "mmr" ->
         IF query_embedding # NoVec
         THEN _mmr_search(query_embedding, query, store, cfg)
         ELSE _keyword_search(expanded_query, query, store)
    [] query.strategy = "hybrid" ->
         IF query_embedding # NoVec
         THEN _hybrid_search(expanded_query, query_embedding, query, store)
         ELSE _keyword_search(expanded_query, query, store)
    [] query.strategy = "keyword" ->
         _keyword_search(expanded_query, query, store)
    [] query.strategy = "semantic_hybrid" ->
         IF query_embedding # NoVec
         THEN _semantic_hybrid_search(expanded_query, query_embedding, query, store)
         ELSE _keyword_search(expanded_query, query, store)
    [] OTHER ->
         IF query_embedding # NoVec
         THEN _similarity_search(query_embedding, query, store)
         ELSE _keyword_search(expanded_query, query, store)

\* A filter that keeps every result.
KeepAll(results, threshold) == results

\* retrieve, line 99: results = [r for r in results if r.score >= threshold]
ThresholdFilter(results, threshold) ==
  SelectSeq(results, LAMBDA r : r.score >= threshold)

\* retrieve, lines 52-61: the query vector; embed_ok FALSE is embed_text
\* raising, which leaves None.
QueryEmbedding(query, expanded_query, embed_ok) ==
  IF query.query_embedding # NoVec THEN query.query_embedding
  ELSE IF embed_ok THEN _generate_mock_embedding(expanded_query)
  ELSE NoVec

\* retrieve, lines 46-49: the query text the search runs on.
ExpandedQuery(query, cfg) ==
  IF query.expand_query \/ cfg.query_expansion THEN _expand_query(query.query)
  ELSE query.query

\* retrieve, lines 94-101: rerank, threshold filter, truncation to top_k.
PostProcess(query, cfg, dispatched) ==
  Slice(ThresholdFilter(IF query.rerank \/ cfg.enable_rerank
                        THEN _rerank_results(dispatched, query.query)
                        ELSE dispatched,
                        query.threshold),
        0, query.top_k)

RetrieveOutcome(query, cfg, store_ok, dispatched) ==
  IF ~store_ok
  THEN [raised |-> TRUE, dispatched |-> <<>>, results |-> <<>>]
  ELSE [raised |-> FALSE, dispatched |-> dispatched,
        results |-> PostProcess(query, cfg, dispatched)]

DispatchFor(query, expanded_query, store, cfg, embed_ok) ==
  Dispatch(query, expanded_query, QueryEmbedding(query, expanded_query, embed_ok), store, cfg)

\* StandardRetriever.retrieve.  store_ok FALSE is the vector store raising
\* VectorStoreError in search / list_chunks, which retrieve re-raises as
\* RetrievalError.  dispatched is `results` before rerank.
retrieve(query, store, cfg, embed_ok, store_ok) ==
  RetrieveOutcome(query, cfg, store_ok,
                  DispatchFor(query, ExpandedQuery(query, cfg), store, cfg, embed_ok))

\* ------------------------------------------------------------- RAGEngine
VARIABLES
  chunks,         \* InMemoryVectorStore.chunks
  stats,          \* RAGEngine.stats
  processor,      \* TextDocumentProcessor: strategy, chunk_size, chunk_overlap, min/max_chunk_size, dynamic_chunking
  retriever_cfg,  \* StandardRetriever: enable_rerank, query_expansion, config['mmr_lambda']
  call,           \* the call the caller is holding the outcome of ("idle": none)
  max_entries,    \* MemoryCacheBackend.max_entries
  cache_store,    \* MemoryCacheBackend._store: key -> value
  cache_order,    \* MemoryCacheBackend._order
  cache_stats,    \* MemoryCacheBackend._stats
  wrapper_stats,  \* CachingEmbeddingProvider._stats
  warm,           \* the embed_text calls made since the last other cache call
  faiss,          \* FAISSVectorStore: vectors and the rows of the chunks table
  chroma,         \* ChromaVectorStore.collections[collection_name]
  dimension,      \* BaseVectorStore.dimension of the three stores
  tasks           \* the add_document calls suspended at `await embed_batch`

engine_vars == <<chunks, stats, processor, retriever_cfg>>
cache_vars == <<max_entries, cache_store, cache_order, cache_stats, wrapper_stats, warm>>
store_vars == <<faiss, chroma, dimension>>
vars == <<chunks, stats, processor, retriever_cfg, call,
          max_entries, cache_store, cache_order, cache_stats, wrapper_stats, warm,
          faiss, chroma, dimension, tasks>>

Idle == [op |-> "idle"]

\* The callers of add_document(document, config); each makes one call.
TaskIds == 1..MaxCallers
NoTask == [pc |-> "idle"]
TaskDone == [pc |-> "done"]


\* add_document, lines 471-475: chunk.embedding = embedding.
EmbedChunks(cs) ==
  [i \in 1..Len(cs) |-> [cs[i] EXCEPT !.embedding = _generate_mock_embedding(cs[i].content)]]

Unchanged(raised, store, st) ==
  [raised |-> raised, success |-> FALSE, chunks |-> <<>>, store |-> store, stats |-> st]

\* add_document, lines 477-483: store the chunks, count them.
StoreChunks(embedded, store, st) ==
  [raised |-> FALSE, success |-> TRUE, chunks |-> embedded,
   store |-> add_chunks(store, embedded),
   stats |-> [st EXCEPT !.total_documents = @ + 1, !.total_chunks = @ + Len(embedded)]]

AddProcessed(processed, store, st, embed_ok) ==
  IF processed.raised THEN Unchanged(TRUE, store, st)
  ELSE IF processed.chunks = <<>> THEN Unchanged(FALSE, store, st)
  ELSE IF ~embed_ok THEN Unchanged(TRUE, store, st)
  ELSE StoreChunks(EmbedChunks(processed.chunks), store, st)

\* RAGEngine.add_document with config None: [raised, success, chunks and
\* the store and stats it leaves].  embed_ok FALSE is embed_batch raising.
add_document(doc, store, st, proc, embed_ok) ==
  AddProcessed(process_document(doc, proc), store, st, embed_ok)

\* add_document, lines 395-408: the attributes a config overrides.  A
\* config is a record over a subset of the three keys (a key left out is
\* a value of None; the empty record is config None).
AttrOfKey == [chunking_strategy |-> "strategy", chunk_size |-> "chunk_size",
              chunk_overlap |-> "chunk_overlap"]
OverriddenAttrs(config) == {AttrOfKey[k] : k \in DOMAIN config}

\* original_attrs: the processor's value of every overridden attribute.
SaveOriginal(config, proc) == [a \in OverriddenAttrs(config) |-> proc[a]]

\* setattr(self.document_processor, attribute, value) for each of them.
ApplyOverride(config, proc) ==
  [proc EXCEPT
     !.strategy = IF "chunking_strategy" \in DOMAIN config
                  THEN config.chunking_strategy ELSE @,
     !.chunk_size = IF "chunk_size" \in DOMAIN config THEN config.chunk_size ELSE @,
     !.chunk_overlap = IF "chunk_overlap" \in DOMAIN config
                       THEN config.chunk_overlap ELSE @]

\* A call that leaves the processor as it finds it at its end.
KeepOverride(original_attrs, proc) == proc

\* for k, v in original_attrs.items(): setattr(self.document_processor, k, v)
RestoreOriginal(original_attrs, proc) ==
  [proc EXCEPT
     !.strategy = IF "strategy" \in DOMAIN original_attrs
                  THEN original_attrs["strategy"] ELSE @,
     !.chunk_size = IF "chunk_size" \in DOMAIN original_attrs
                    THEN original_attrs["chunk_size"] ELSE @,
     !.chunk_overlap = IF "chunk_overlap" \in DOMAIN original_attrs
                       THEN original_attrs["chunk_overlap"] ELSE @]

\* delete_document, lines 596-607, on the chunks list_chunks returned.
DeleteListed(listed, store, st) ==
  IF listed = <<>>
  THEN [raised |-> FALSE, success |-> TRUE, store |-> store, stats |-> st]
  ELSE [raised |-> FALSE, success |-> TRUE,
        store |-> delete_chunks(store, {listed[i].chunk_id : i \in 1..Len(listed)}),
        stats |-> [st EXCEPT !.total_documents = @ - 1,
                             !.total_chunks = @ - Len(listed)]]

\* The chunks delete_document asks the store for: list_chunks(doc_id=doc_id),
\* limit left at its default.
ListForDelete(store, doc_id) == list_chunks(store, doc_id, DefaultListLimit, 0)

\* RAGEngine.delete_document
delete_document(doc_id, store, st) ==
  DeleteListed(ListForDelete(store, doc_id), store, st)

AddAfterDelete(doc, deleted, proc, embed_ok) ==
  add_document(doc, deleted.store, deleted.stats, proc, embed_ok)

\* RAGEngine.update_document: delete_document, then add_document.
update_document(doc, store, st, proc, embed_ok) ==
  AddAfterDelete(doc, delete_document(doc.doc_id, store, st), proc, embed_ok)

\* _generate_answer without an llm_manager: the length of
\* "基于检索到的信息：\n\n" + "\n\n".join("来源: " + content[:200] + "...").
AnswerLen(results) ==
  LET used == Slice(results, 0, 3)
  IN 11 + SumSeq([i \in 1..Len(used) |-> 4 + Min(Len(used[i].chunk.content), 200) + 3])
        + 2 * (Len(used) - 1)

\* _calculate_confidence as the fraction num / den:
\* min(0.6 * mean(score) + 0.2 * min(len(answer)/200, 1) + 0.2 * min(n/5, 1), 1).
_calculate_confidence(results, answer_len) ==
  LET n == Len(results)
      den == 1000 * n * SCALE
      num == 600 * SumSeq([i \in 1..n |-> results[i].score])
             + n * SCALE * Min(answer_len, 200)
             + 40 * n * SCALE * Min(n, 5)
  IN IF n = 0 THEN [num |-> 0, den |-> 1] ELSE [num |-> Min(num, den), den |-> den]

Zero == [num |-> 0, den |-> 1]

\* The response of the except branch of query (lines 572-588).
ErrorResponse ==
  [answer |-> "error", answer_len |-> 8, retrieved_chunks |-> <<>>,
   confidence |-> Zero, metadata |-> {"error"}]

\* A canned response that reports an error.
NoResultsAsError ==
  [answer |-> "", answer_len |-> 0, retrieved_chunks |-> <<>>,
   confidence |-> Zero, metadata |-> {"error"}]

\* The canned response of lines 530-539: "抱歉，没有找到相关信息。".
NoResultsResponse ==
  [answer |-> "no_results", answer_len |-> 12, retrieved_chunks |-> <<>>,
   confidence |-> Zero, metadata |-> {"no_results"}]

Generated(results, answer_len) ==
  [answer |-> "generated", answer_len |-> answer_len, retrieved_chunks |-> results,
   confidence |-> _calculate_confidence(results, answer_len),
   metadata |-> {"retrieval_strategy", "chunks_retrieved", "max_score"}]

\* A query that lets the exception out.
Reraise(st1) ==
  [raised |-> TRUE, response |-> ErrorResponse,
   stats |-> [st1 EXCEPT !.failed_queries = @ + 1]]

\* query, lines 572-588: the except branch.
QueryFailed(st1) ==
  [raised |-> FALSE, response |-> ErrorResponse,
   stats |-> [st1 EXCEPT !.failed_queries = @ + 1]]

\* query, lines 528-570, on the outcome of retriever.retrieve.  gen_ok FALSE
\* is an exception out of _generate_answer / _calculate_confidence.
QueryRetrieved(got, st1, gen_ok) ==
  IF got.raised THEN QueryFailed(st1)
  ELSE IF got.results = <<>>
  THEN [raised |-> FALSE, response |-> NoResultsResponse, stats |-> st1]
  ELSE IF ~gen_ok THEN QueryFailed(st1)
  ELSE [raised |-> FALSE, response |-> Generated(got.results, AnswerLen(got.results)),
        stats |-> [st1 EXCEPT !.successful_queries = @ + 1]]

RetrievalQuery(text, kw) ==
  [query |-> text, top_k |-> kw.top_k, strategy |-> kw.strategy,
   filters |-> kw.filters, threshold |-> kw.threshold,
   rerank |-> kw.rerank, expand_query |-> kw.expand_query,
   query_embedding |-> NoVec]

CountQuery(st) == [st EXCEPT !.total_queries = @ + 1]

\* RAGEngine.query: [raised, response, stats].  kw.strategy is the kwargs
\* string; RetrievalStrategy(strategy) raises ValueError, inside the try,
\* for a name that is no member.
query(text, kw, store, st, cfg, embed_ok, store_ok, gen_ok) ==
  IF kw.strategy \notin Strategies THEN QueryFailed(CountQuery(st))
  ELSE QueryRetrieved(retrieve(RetrievalQuery(text, kw), store, cfg, embed_ok, store_ok),
                      CountQuery(st), gen_ok)

\* ------------------------------------------------- MemoryCacheBackend
\* A backend is the record [max_entries, store, order, stats]; store is the
\* dict _store as a function from keys to values, order the list _order.
ZeroStats == [hits |-> 0, misses |-> 0, sets |-> 0, evictions |-> 0, total_requests |-> 0]

\* list.remove(key) under try / except ValueError: drops the first
\* occurrence, if any.
RemoveFirst(order, key) ==
  IF \E i \in 1..Len(order) : order[i] = key
  THEN LET i == CHOOSE i \in 1..Len(order) :
                  order[i] = key /\ \A j \in 1..(i - 1) : order[j] # key
       IN SubSeq(order, 1, i - 1) \o SubSeq(order, i + 1, Len(order))
  ELSE order

DictSet(store, key, value) ==
  [k \in DOMAIN store \cup {key} |-> IF k = key THEN value ELSE store[k]]
DictDel(store, key) == [k \in DOMAIN store \ {key} |-> store[k]]

\* A get that returns the value and leaves the order of the keys alone.
GetWithoutTouch(c, key) ==
  IF key \notin DOMAIN c.store
  THEN [cache |-> [c EXCEPT !.stats.total_requests = @ + 1, !.stats.misses = @ + 1],
        value |-> NoVec]
  ELSE [cache |-> [c EXCEPT !.stats.total_requests = @ + 1, !.stats.hits = @ + 1],
        value |-> c.store[key]]

\* MemoryCacheBackend.get: the backend it leaves and the value returned
\* (NoVec: None).
get(c, key) ==
  IF key \notin DOMAIN c.store
  THEN [cache |-> [c EXCEPT !.stats.total_requests = @ + 1, !.stats.misses = @ + 1],
        value |-> NoVec]
  ELSE [cache |-> [c EXCEPT !.stats.total_requests = @ + 1, !.stats.hits = @ + 1,
                            !.order = Append(RemoveFirst(c.order, key), key)],
        value |-> c.store[key]]

\* set, lines 92-98: store the value and make the key the most recent.
Store(c, key, value) ==
  [c EXCEPT !.store = DictSet(c.store, key, value),
            !.order = Append(RemoveFirst(c.order, key), key),
            !.stats.sets = @ + 1]

\* set, lines 87-90: drop the least recently used key.
Evict(c) ==
  [c EXCEPT !.order = Tail(c.order),
            !.store = DictDel(c.store, Head(c.order)),
            !.stats.evictions = IF Head(c.order) \in DOMAIN c.store THEN @ + 1 ELSE @]

\* A set that never evicts.
SetWithoutEviction(c, key, value) == Store(c, key, value)

\* MemoryCacheBackend.set (ttl_seconds is ignored by the code).
set(c, key, value) ==
  IF key \notin DOMAIN c.store /\ Len(c.order) >= c.max_entries
  THEN Store(Evict(c), key, value)
  ELSE Store(c, key, value)

\* MemoryCacheBackend.delete
delete(c, key) ==
  [c EXCEPT !.store = DictDel(c.store, key), !.order = RemoveFirst(c.order, key)]

\* MemoryCacheBackend.clear
clear(c) == [c EXCEPT !.store = <<>>, !.order = <<>>, !.stats = ZeroStats]

\* -------------------------------------------- CachingEmbeddingProvider
\* The texts handed to the wrapper are kept run-length encoded: a sequence
\* of runs [ch, n], n >= 1, adjacent runs of different characters, so that
\* two texts are equal exactly when their encodings are.
Run(ch, n) == [ch |-> ch, n |-> n]
RunLen(text) == SumSeq([i \in 1..Len(text) |-> text[i].n])
RunCount(text, c) == SumSeq([i \in 1..Len(text) |-> IF text[i].ch = c THEN text[i].n ELSE 0])

\* text[:limit]
RECURSIVE RunPrefix(_, _)
RunPrefix(text, limit) ==
  IF text = <<>> \/ limit <= 0 THEN <<>>
  ELSE IF Head(text).n >= limit THEN <<Run(Head(text).ch, limit)>>
  ELSE <<Head(text)>> \o RunPrefix(Tail(text), limit - Head(text).n)

\* _hash_text: sha256 of text[:10000] and the model id.  The digest is
\* taken to be collision free, so the key is the hashed prefix itself (one
\* model id throughout).
_hash_text(text) == RunPrefix(text, HashLimit)

\* The wrapped provider's embedding of a text.
InnerEmbed(text) == MockVector(RunCount(text, "a"), RunCount(text, "b"), RunLen(text))

\* The wrapped provider: embed_text(text), and embed_batch(texts) in the
\* ways a provider can answer: one vector per text ("ok"), one vector
\* short ("fewer"), one vector too many ("more").
ExtraVec == <<9, 9>>
InnerBatch(batch_texts, mode) ==
  LET vecs == [i \in 1..Len(batch_texts) |-> InnerEmbed(batch_texts[i])]
  IN IF mode = "fewer" THEN SubSeq(vecs, 1, Len(vecs) - 1)
     ELSE IF mode = "more" THEN Append(vecs, ExtraVec)
     ELSE vecs

\* embed_text, lines 153-163, after a cache miss.
EmbedTextMiss(c, w, text, key, inner_ok) ==
  IF ~inner_ok
  THEN [raised |-> TRUE, value |-> NoVec, cache |-> c, wrapper |-> w, inner_called |-> TRUE]
  ELSE [raised |-> FALSE, value |-> InnerEmbed(text),
        cache |-> set(c, key, InnerEmbed(text)),
        wrapper |-> [w EXCEPT !.misses = @ + 1, !.total_requests = @ + 1],
        inner_called |-> TRUE]

EmbedTextGot(g, w, text, key, inner_ok) ==
  IF g.value # NoVec
  THEN [raised |-> FALSE, value |-> g.value, cache |-> g.cache, wrapper |-> w,
        inner_called |-> FALSE]
  ELSE EmbedTextMiss(g.cache, w, text, key, inner_ok)

\* An embed_text that never writes the cache.
embed_text_uncached(c, w, text, inner_ok) ==
  [raised |-> ~inner_ok,
   value |-> IF inner_ok THEN InnerEmbed(text) ELSE NoVec,
   cache |-> c, wrapper |-> w, inner_called |-> TRUE]

\* CachingEmbeddingProvider.embed_text on backend c and wrapper stats w.
\* inner_ok FALSE is the wrapped provider raising.
embed_text(c, w, text, inner_ok) ==
  EmbedTextGot(get(c, _hash_text(text)), w, text, _hash_text(text), inner_ok)

\* embed_batch, lines 173-179: cache.get on every key, in input order.
RECURSIVE GetAll(_, _)
GetAll(c, keys) ==
  IF keys = <<>> THEN [cache |-> c, values |-> <<>>]
  ELSE LET g == get(c, Head(keys))
           rest == GetAll(g.cache, Tail(keys))
       IN [cache |-> rest.cache, values |-> <<g.value>> \o rest.values]

\* embed_batch, lines 189-192: cache.set(keys[idx], batch_vecs[j]) for the
\* first n missing indices.
RECURSIVE SetAll(_, _, _, _, _)
SetAll(c, keys, missing_indices, batch_vecs, n) ==
  IF n = 0 THEN c
  ELSE set(SetAll(c, keys, missing_indices, batch_vecs, n - 1),
           keys[missing_indices[n]], batch_vecs[n])

\* Position of idx in missing_indices.
IndexIn(missing_indices, idx) ==
  CHOOSE j \in 1..Len(missing_indices) : missing_indices[j] = idx

\* A merge that hands the provider's vectors out in reverse.
MergeReversed(values, missing_indices, batch_vecs) ==
  [i \in 1..Len(values) |->
     IF values[i] # NoVec THEN values[i]
     ELSE batch_vecs[Len(missing_indices) + 1 - IndexIn(missing_indices, i)]]

\* embed_batch, lines 189-193 and 207: results[idx] = batch_vecs[j].
Merge(values, missing_indices, batch_vecs) ==
  [i \in 1..Len(values) |->
     IF values[i] # NoVec THEN values[i]
     ELSE batch_vecs[IndexIn(missing_indices, i)]]

BatchRaised(c, w, batch_texts) ==
  [raised |-> TRUE, results |-> <<>>, cache |-> c, wrapper |-> w,
   inner_called |-> TRUE, inner_texts |-> batch_texts]

\* embed_batch, lines 188-199, on the vectors the provider returned; a
\* short batch_vecs ends the loop with IndexError after the sets made so far.
BatchFilled(g, w, keys, missing_indices, batch_texts, batch_vecs) ==
  IF Len(batch_vecs) < Len(missing_indices)
  THEN BatchRaised(SetAll(g.cache, keys, missing_indices, batch_vecs, Len(batch_vecs)),
                   w, batch_texts)
  ELSE [raised |-> FALSE,
        results |-> Merge(g.values, missing_indices, batch_vecs),
        cache |-> SetAll(g.cache, keys, missing_indices, batch_vecs, Len(missing_indices)),
        wrapper |-> [w EXCEPT !.misses = @ + Len(missing_indices),
                              !.hits = @ + (Len(keys) - Len(missing_indices)),
                              !.total_requests = @ + Len(keys)],
        inner_called |-> TRUE, inner_texts |-> batch_texts]

\* embed_batch, lines 182-204, on the missing indices.
BatchMissing(g, w, texts, keys, missing_indices, mode) ==
  IF missing_indices = <<>>
  THEN [raised |-> FALSE, results |-> g.values, cache |-> g.cache,
        wrapper |-> [w EXCEPT !.hits = @ + Len(texts), !.total_requests = @ + Len(texts)],
        inner_called |-> FALSE, inner_texts |-> <<>>]
  ELSE IF mode = "raise"
  THEN BatchRaised(g.cache, w, [j \in 1..Len(missing_indices) |-> texts[missing_indices[j]]])
  ELSE BatchFilled(g, w, keys, missing_indices,
                   [j \in 1..Len(missing_indices) |-> texts[missing_indices[j]]],
                   InnerBatch([j \in 1..Len(missing_indices) |-> texts[missing_indices[j]]],
                              mode))

MissingIndices(values) ==
  SelectSeq([i \in 1..Len(values) |-> i], LAMBDA i : values[i] = NoVec)

BatchGot(g, w, texts, keys, mode) ==
  BatchMissing(g, w, texts, keys, MissingIndices(g.values), mode)

BatchKeys(texts) == [i \in 1..Len(texts) |-> _hash_text(texts[i])]

\* CachingEmbeddingProvider.embed_batch.  mode "raise" is the wrapped
\* provider raising.
embed_batch(c, w, texts, mode) ==
  BatchGot(GetAll(c, BatchKeys(texts)), w, texts, BatchKeys(texts), mode)

\* ------------------------------------------------------------- inputs
DocIds == {"d1", "d2"}
DocTypes == {"text", "pdf"}
\* Document contents of the retrieval specification.
SmallContents == { <<"a", "b", " ", "b", "a">>, <<"B", " ", " ", "f">> }
\* Document contents of the ingestion specification: 101, 2 and 1
\* characters, i.e. 101, 2 and 1 chunks at chunk_size 1.
LongText == [i \in 1..(DefaultListLimit + 1) |-> "a"]
IngestContents == { LongText, <<"a", "b">>, <<"a">> }

QueryTexts == { <<"a", " ", "b">>, <<"b", " ", "S">>, <<>> }
Thresholds == {0, (7 * SCALE) \div 10}
\* query.query_embedding as passed by the caller (NoVec: none; the last has
\* another dimension than the stored vectors).
QueryVectors == {NoVec, <<1, 0>>, <<1, 0, 0>>}
StrategyNames == Strategies \cup {"bogus"}

\* Texts passed to the embedding wrapper: a short one, and two that differ
\* only after their first HashLimit characters.
LongPrefix == <<Run("x", HashLimit)>>
Texts == { <<Run("a", 1)>>, LongPrefix \o <<Run("a", 1)>>, LongPrefix \o <<Run("b", 1)>> }
TextLists == UNION {[1..n -> Texts] : n \in 0..MaxBatch}
InnerModes == {"ok", "fewer", "more", "raise"}
CacheKeys == {_hash_text(t) : t \in Texts}
CacheValues == {<<1, 0>>, <<0, 1>>}

\* Chunks handed to the stores directly: one chunk id of each document,
\* each with no embedding, an embedding of the stores' dimension, or one of
\* another dimension.
InputEmbeddings == {NoVec, <<1, 0>>, <<4, 3>>, <<1, 0, 0>>}
InputChunkIds == {<<"d1", 0>>, <<"d2", 0>>}
InputChunk(id, embedding) ==
  [MkChunk(id[1], id[2], <<"a">>, 0, 1,
           [strategy |-> IF id[1] = "d1" THEN "fixed_size" ELSE "paragraph",
            chunk_overlap |-> 0], 1)
     EXCEPT !.embedding = embedding]
InputChunks == {InputChunk(id, e) : id \in InputChunkIds, e \in InputEmbeddings}
InputChunkLists == UNION {[1..n -> InputChunks] : n \in 1..2}
\* Filter maps, as sets of <<key, value>>: none, one on doc_id, one on a
\* metadata key every chunk has, one on a key no chunk has, and two keys.
InputFilters ==
  { {}, {<<"doc_id", "d2">>}, {<<"strategy", "fixed_size">>}, {<<"category", "x">>},
    {<<"doc_id", "d1">>, <<"category", "x">>} }

\* Per-call configs of add_document: none, all three keys (the second with
\* chunk_size <= chunk_overlap), the strategy alone, the chunk size alone.
OverrideConfigs ==
  { <<>>,
    [chunking_strategy |-> "paragraph", chunk_size |-> 2, chunk_overlap |-> 0],
    [chunking_strategy |-> "fixed_size", chunk_size |-> 1, chunk_overlap |-> 1],
    [chunking_strategy |-> "paragraph"],
    [chunk_size |-> 2] }
\* Documents of the override specification: one _infer_profile takes for a
\* report, one it takes for code.
OverrideContents == [d1 |-> <<"a", " ", "b">>, d2 |-> <<"{", "a">>]

\* MemoryCacheBackend(max_entries=m) wrapped by CachingEmbeddingProvider.
InitCache(m) ==
  /\ max_entries = m
  /\ cache_store = <<>>
  /\ cache_order = <<>>
  /\ cache_stats = ZeroStats
  /\ wrapper_stats = [hits |-> 0, misses |-> 0, total_requests |-> 0]
  /\ warm = <<>>

\* The FAISS-backed and the Chroma store, empty, of the dimension of the
\* embeddings the provider produces.
InitStores ==
  /\ faiss = [vectors |-> <<>>, rows |-> <<>>]
  /\ chroma = <<>>
  /\ dimension = 2

\* No add_document call is in progress.
InitTasks == tasks = [t \in TaskIds |-> NoTask]

InitEngine(chunk_size, chunk_overlap) ==
  /\ chunks = <<>>
  /\ stats = [total_queries |-> 0, successful_queries |-> 0, failed_queries |-> 0,
              total_documents |-> 0, total_chunks |-> 0]
  /\ processor = [strategy |-> "fixed_size", chunk_size |-> chunk_size,
                  chunk_overlap |-> chunk_overlap, min_chunk_size |-> 1,
                  max_chunk_size |-> 2000, dynamic_chunking |-> FALSE]
  /\ retriever_cfg = [enable_rerank |-> FALSE, query_expansion |-> FALSE, mmr_lambda |-> 5]
  /\ call = Idle

\* ------------------------------------------------------------- actions
MkDoc(doc_id, content, doc_type) ==
  [doc_id |-> doc_id, content |-> content, doc_type |-> doc_type]

\* The engine state and the outcome an ingestion call leaves.
IngestDone(op, doc_id, r) ==
  /\ chunks' = r.store
  /\ stats' = r.stats
  /\ call' = [op |-> op, doc_id |-> doc_id, raised |-> r.raised, success |-> r.success,
              chunks |-> r.chunks, was_ingested |-> doc_id \in StoreDocIds(chunks)]

\* await rag_engine.add_document(Document(content, doc_id, doc_type))
AddDocument(Contents) ==
  /\ call = Idle
  /\ stats.total_documents < MaxOps
  /\ stats.total_chunks < MaxChunkCount
  /\ \E doc_id \in DocIds, content \in Contents, doc_type \in DocTypes, embed_ok \in BOOLEAN :
       /\ IngestDone("add_document", doc_id,
                     add_document(MkDoc(doc_id, content, doc_type), chunks, stats,
                                  processor, embed_ok))
       /\ processor' = ProcessorAfter(MkDoc(doc_id, content, doc_type), processor)
  /\ UNCHANGED <<retriever_cfg, cache_vars, store_vars, tasks>>

DeleteDone(doc_id, r) ==
  /\ chunks' = r.store
  /\ stats' = r.stats
  /\ call' = [op |-> "delete_document", doc_id |-> doc_id, raised |-> r.raised,
              success |-> r.success, was_ingested |-> doc_id \in StoreDocIds(chunks)]

\* await rag_engine.delete_document(doc_id)
DeleteDocument ==
  /\ call = Idle
  /\ stats.total_documents > -MaxOps
  /\ \E doc_id \in DocIds : DeleteDone(doc_id, delete_document(doc_id, chunks, stats))
  /\ UNCHANGED <<processor, retriever_cfg, cache_vars, store_vars, tasks>>

\* await rag_engine.update_document(Document(content, doc_id))
UpdateDocument(Contents) ==
  /\ call = Idle
  /\ stats.total_documents < MaxOps
  /\ stats.total_chunks < MaxChunkCount
  /\ stats.total_documents > -MaxOps
  /\ \E doc_id \in DocIds, content \in Contents, embed_ok \in BOOLEAN :
       /\ IngestDone("update_document", doc_id,
                     update_document(MkDoc(doc_id, content, "text"), chunks, stats,
                                     processor, embed_ok))
       /\ processor' = ProcessorAfter(MkDoc(doc_id, content, "text"), processor)
  /\ UNCHANGED <<retriever_cfg, cache_vars, store_vars, tasks>>

RetrieveDone(q, embed_ok, store_ok, r) ==
  call' = [op |-> "retrieve", query |-> q, embed_ok |-> embed_ok, store_ok |-> store_ok,
           raised |-> r.raised, dispatched |-> r.dispatched, results |-> r.results]

MkQuery(text, top_k, strategy, threshold, rerank, expand_query, query_embedding) ==
  [query |-> text, top_k |-> top_k, strategy |-> strategy, filters |-> {},
   threshold |-> threshold, rerank |-> rerank, expand_query |-> expand_query,
   query_embedding |-> query_embedding]

RetrieveCall(q, embed_ok, store_ok) ==
  RetrieveDone(q, embed_ok, store_ok, retrieve(q, chunks, retriever_cfg, embed_ok, store_ok))

\* await rag_engine.retriever.retrieve(RetrievalQuery(...))
Retrieve ==
  /\ call = Idle
  /\ \E text \in QueryTexts, top_k \in 1..MaxTopK, strategy \in Strategies,
        threshold \in Thresholds, rerank \in BOOLEAN, expand_query \in BOOLEAN,
        query_embedding \in QueryVectors, embed_ok \in BOOLEAN, store_ok \in BOOLEAN :
       /\ (query_embedding # NoVec => embed_ok)
       /\ (~store_ok => ~rerank /\ ~expand_query)
       /\ RetrieveCall(MkQuery(text, top_k, strategy, threshold, rerank, expand_query,
                               query_embedding),
                       embed_ok, store_ok)
  /\ UNCHANGED <<engine_vars, cache_vars, store_vars, tasks>>

QueryDone(text, kw, embed_ok, store_ok, gen_ok, r) ==
  /\ stats' = r.stats
  /\ call' = [op |-> "query", query |-> text, kwargs |-> kw, embed_ok |-> embed_ok,
              store_ok |-> store_ok, gen_ok |-> gen_ok, store_empty |-> chunks = <<>>,
              raised |-> r.raised, response |-> r.response]

MkKwargs(top_k, strategy, threshold, rerank) ==
  [top_k |-> top_k, strategy |-> strategy, filters |-> {},
   threshold |-> threshold, rerank |-> rerank, expand_query |-> FALSE]

QueryCall(text, kw, embed_ok, store_ok, gen_ok) ==
  QueryDone(text, kw, embed_ok, store_ok, gen_ok,
            query(text, kw, chunks, stats, retriever_cfg, embed_ok, store_ok, gen_ok))

\* await rag_engine.query(text, strategy=..., top_k=..., threshold=..., ...)
Query ==
  /\ call = Idle
  /\ stats.total_queries < MaxQueries
  /\ \E text \in QueryTexts, top_k \in 1..MaxTopK, strategy \in StrategyNames,
        threshold \in Thresholds, rerank \in BOOLEAN,
        embed_ok \in BOOLEAN, store_ok \in BOOLEAN, gen_ok \in BOOLEAN :
       /\ (~store_ok => embed_ok /\ ~rerank /\ gen_ok)
       /\ (~gen_ok => embed_ok /\ ~rerank)
       /\ QueryCall(text, MkKwargs(top_k, strategy, threshold, rerank), embed_ok, store_ok,
                    gen_ok)
  /\ UNCHANGED <<chunks, processor, retriever_cfg, cache_vars, store_vars, tasks>>

\* The backend as the record the cache operators work on.
Backend ==
  [max_entries |-> max_entries, store |-> cache_store, order |-> cache_order,
   stats |-> cache_stats]

BackendIs(c) ==
  /\ cache_store' = c.store
  /\ cache_order' = c.order
  /\ cache_stats' = c.stats

EmbedTextDone(text, r) ==
  /\ BackendIs(r.cache)
  /\ wrapper_stats' = r.wrapper
  /\ warm' = IF r.raised THEN warm ELSE Append(warm, [text |-> text, vec |-> r.value])
  /\ call' = [op |-> "embed_text", text |-> text, raised |-> r.raised, value |-> r.value,
              inner_called |-> r.inner_called]

\* await provider.embed_text(text) through the caching wrapper
EmbedText ==
  /\ call = Idle
  /\ cache_stats.total_requests < MaxCacheOps
  /\ \E text \in Texts, inner_ok \in BOOLEAN :
       EmbedTextDone(text, embed_text(Backend, wrapper_stats, text, inner_ok))
  /\ UNCHANGED <<engine_vars, store_vars, tasks, max_entries>>

EmbedBatchDone(texts, mode, r) ==
  /\ BackendIs(r.cache)
  /\ wrapper_stats' = r.wrapper
  /\ warm' = <<>>
  /\ call' = [op |-> "embed_batch", texts |-> texts, mode |-> mode, raised |-> r.raised,
              results |-> r.results, inner_called |-> r.inner_called,
              inner_texts |-> r.inner_texts,
              cached_before |-> [i \in 1..Len(texts) |->
                                   IF _hash_text(texts[i]) \in DOMAIN cache_store
                                   THEN cache_store[_hash_text(texts[i])] ELSE NoVec],
              warm |-> warm,
              misses_before |-> <<cache_stats.misses, wrapper_stats.misses>>]

\* await provider.embed_batch(texts) through the caching wrapper
EmbedBatch ==
  /\ call = Idle
  /\ \E texts \in TextLists, mode \in InnerModes :
       /\ cache_stats.total_requests + Len(texts) <= MaxCacheOps
       /\ EmbedBatchDone(texts, mode, embed_batch(Backend, wrapper_stats, texts, mode))
  /\ UNCHANGED <<engine_vars, store_vars, tasks, max_entries>>

\* backend.get(key)
CacheGet ==
  /\ cache_stats.total_requests < MaxCacheOps
  /\ \E key \in CacheKeys : BackendIs(get(Backend, key).cache)
  /\ UNCHANGED <<engine_vars, store_vars, tasks, call, max_entries, wrapper_stats, warm>>

\* backend.set(key, value)
CacheSet ==
  /\ cache_stats.sets < MaxCacheOps
  /\ \E key \in CacheKeys, value \in CacheValues : BackendIs(set(Backend, key, value))
  /\ UNCHANGED <<engine_vars, store_vars, tasks, call, max_entries, wrapper_stats, warm>>

\* backend.delete(key)
CacheDelete ==
  /\ \E key \in CacheKeys : BackendIs(delete(Backend, key))
  /\ UNCHANGED <<engine_vars, store_vars, tasks, call, max_entries, wrapper_stats, warm>>

\* backend.clear()
CacheClear ==
  /\ BackendIs(clear(Backend))
  /\ UNCHANGED <<engine_vars, store_vars, tasks, call, max_entries, wrapper_stats, warm>>

\* The outcome of one call made on each of the three stores.
PerStore(f, c, m) == [faiss |-> f, chroma |-> c, memory |-> m]

AddChunksDone(new, f, c, m) ==
  /\ faiss' = f.store
  /\ chroma' = c.store
  /\ chunks' = m
  /\ call' = [op |-> "add_chunks", new |-> new,
              raised |-> PerStore(f.raised, c.raised, FALSE)]

\* await store.add_chunks(new) on each store
AddChunks ==
  /\ call = Idle
  /\ \E new \in InputChunkLists :
       AddChunksDone(new, FAISS_add_chunks(faiss, new), Chroma_add_chunks(chroma, new),
                     add_chunks(chunks, new))
  /\ UNCHANGED <<stats, processor, retriever_cfg, cache_vars, dimension, tasks>>

UpdateChunkDone(chunk, f, c, m) ==
  /\ faiss' = f.store
  /\ chroma' = c.store
  /\ chunks' = m
  /\ call' = [op |-> "update_chunk", chunk |-> chunk,
              raised |-> PerStore(f.raised, c.raised, FALSE)]

\* await store.update_chunk(chunk) on each store
UpdateChunk ==
  /\ call = Idle
  /\ \E chunk \in InputChunks :
       UpdateChunkDone(chunk, FAISS_update_chunk(faiss, chunk),
                       Chroma_update_chunk(chroma, chunk), update_chunk(chunks, chunk))
  /\ UNCHANGED <<stats, processor, retriever_cfg, cache_vars, dimension, tasks>>

\* await store.delete_chunks([chunk_id]) on each store
DeleteChunks ==
  /\ call = Idle
  /\ \E id \in InputChunkIds :
       /\ faiss' = FAISS_delete_chunks(faiss, {id})
       /\ chroma' = Chroma_delete_chunks(chroma, {id})
       /\ chunks' = delete_chunks(chunks, {id})
       /\ call' = [op |-> "delete_chunks", chunk_ids |-> {id}]
  /\ UNCHANGED <<stats, processor, retriever_cfg, cache_vars, dimension, tasks>>

SearchDone(query_embedding, top_k, filters, f, c, m) ==
  call' = [op |-> "search", query_embedding |-> query_embedding, top_k |-> top_k,
           filters |-> filters, results |-> PerStore(f, c, m)]

\* await store.search(query_embedding, top_k, filters) on each store
Search ==
  /\ call = Idle
  /\ \E query_embedding \in {<<1, 0>>, <<4, 3>>}, top_k \in 1..MaxTopK,
        filters \in InputFilters :
       SearchDone(query_embedding, top_k, filters,
                  FAISS_search(faiss, query_embedding, top_k, filters),
                  Chroma_search(chroma, query_embedding, top_k, filters),
                  search(chunks, query_embedding, top_k, filters))
  /\ UNCHANGED <<engine_vars, cache_vars, store_vars, tasks>>

\* Query embeddings the retriever hands to its search methods.
SearchVectors == {<<1, 0>>, <<4, 3>>, <<0, 1>>}

HybridSearchDone(q, query_embedding, vector_results, keyword_results) ==
  call' = [op |-> "hybrid_search", query |-> q, query_embedding |-> query_embedding,
           vector_results |-> vector_results, keyword_results |-> keyword_results,
           merged |-> _merge_search_results(vector_results, keyword_results),
           results |-> _hybrid_search(q.query, query_embedding, q, chunks)]

\* await retriever._hybrid_search(query, query_embedding, query_obj)
HybridSearch ==
  /\ call = Idle
  /\ \E text \in QueryTexts \ {<<>>}, top_k \in 1..MaxTopK, query_embedding \in SearchVectors :
       LET q == MkQuery(text, top_k, "hybrid", 0, FALSE, FALSE, query_embedding)
       IN HybridSearchDone(q, query_embedding,
                           _similarity_search(query_embedding, q, chunks),
                           _keyword_search(text, q, chunks))
  /\ UNCHANGED <<engine_vars, cache_vars, store_vars, tasks>>

MmrSearchDone(q, query_embedding, candidates, results) ==
  call' = [op |-> "mmr_search", query |-> q, query_embedding |-> query_embedding,
           mmr_lambda |-> retriever_cfg.mmr_lambda,
           candidates |-> candidates, results |-> results]

\* await retriever._mmr_search(query_embedding, query_obj)
MmrSearch ==
  /\ call = Idle
  /\ \E top_k \in 1..MaxTopK, query_embedding \in SearchVectors :
       LET q == MkQuery(<<>>, top_k, "mmr", 0, FALSE, FALSE, query_embedding)
       IN MmrSearchDone(q, query_embedding,
                        search(chunks, query_embedding, top_k * 3, q.filters),
                        _mmr_search(query_embedding, q, chunks, retriever_cfg))
  /\ UNCHANGED <<engine_vars, cache_vars, store_vars, tasks>>

\* The calls of the other callers that are suspended.
Suspended(t) == {o \in TaskIds \ {t} : tasks[o].pc = "embed_batch"}

\* The processor as it was when no call was in progress last.
BaseFor(t) ==
  IF Suspended(t) = {} THEN processor
  ELSE tasks[CHOOSE o \in Suspended(t) : TRUE].base

\* The outcome of an add_document(document, config) call, with the
\* processor before the call, at chunking and after the call, and the
\* configs of the calls that were in progress during it.
ConfigCallDone(t, doc, config, r, processed, before, used, base, peers) ==
  call' = [op |-> "add_document_config", task |-> t, doc |-> doc,
           config |-> config, raised |-> r.raised, success |-> r.success,
           chunks |-> r.chunks, processed |-> processed,
           before |-> before, used |-> used, after |-> processor',
           base |-> base, peers |-> peers]

\* add_document(document, config) by caller t, lines 392-473: save and
\* override the processor's attributes, chunk the document, and either
\* leave (process_document raised or produced nothing: restore, lines
\* 461-469 and 484-493) or suspend at `await embed_batch`.
BeginWith(t, doc, config, overridden) ==
  LET processed == process_document(doc, overridden)
      used == ProcessorAfter(doc, overridden)
      peers == {tasks[o].config : o \in Suspended(t)}
  IN IF processed.raised \/ processed.chunks = <<>>
     THEN /\ processor' = RestoreOriginal(SaveOriginal(config, processor), used)
          /\ ConfigCallDone(t, doc, config, Unchanged(processed.raised, chunks, stats),
                            processed, processor, used, BaseFor(t), peers)
          /\ tasks' = [tasks EXCEPT ![t] = TaskDone]
     ELSE /\ processor' = used
          /\ tasks' = [o \in TaskIds |->
                         IF o = t
                         THEN [pc |-> "embed_batch", doc |-> doc, config |-> config,
                               original_attrs |-> SaveOriginal(config, processor),
                               processed |-> processed, before |-> processor,
                               used |-> used, base |-> BaseFor(t), peers |-> peers]
                         ELSE IF o \in Suspended(t)
                              THEN [tasks[o] EXCEPT !.peers = @ \cup {config}]
                              ELSE tasks[o]]
          /\ UNCHANGED call

BeginAddDocument(t) ==
  /\ call = Idle
  /\ tasks[t].pc = "idle"
  /\ \E doc_id \in DocIds, doc_type \in DocTypes, config \in OverrideConfigs :
       BeginWith(t, MkDoc(doc_id, OverrideContents[doc_id], doc_type), config,
                 ApplyOverride(config, processor))
  /\ UNCHANGED <<chunks, stats, retriever_cfg, cache_vars, store_vars>>

\* add_document of caller t from the return of embed_batch, lines 473-493:
\* store the chunks or raise, then restore the saved attributes.
FinishWith(t, task, r) ==
  /\ chunks' = r.store
  /\ stats' = r.stats
  /\ processor' = RestoreOriginal(task.original_attrs, processor)
  /\ tasks' = [tasks EXCEPT ![t] = TaskDone]
  /\ ConfigCallDone(t, task.doc, task.config, r, task.processed, task.before,
                    task.used, task.base, task.peers)

FinishAddDocument(t) ==
  /\ call = Idle
  /\ tasks[t].pc = "embed_batch"
  /\ \E embed_ok \in BOOLEAN :
       FinishWith(t, tasks[t],
                  IF embed_ok
                  THEN StoreChunks(EmbedChunks(tasks[t].processed.chunks), chunks, stats)
                  ELSE Unchanged(TRUE, chunks, stats))
  /\ UNCHANGED <<retriever_cfg, cache_vars, store_vars>>

\* The caller is done with the outcome of its call and may make the next.
Return ==
  /\ call # Idle
  /\ call' = Idle
  /\ UNCHANGED <<engine_vars, cache_vars, store_vars, tasks>>

Init == InitEngine(3, 1) /\ InitCache(1) /\ InitStores /\ InitTasks
Next ==
  \/ AddDocument(SmallContents)
  \/ DeleteDocument
  \/ UpdateDocument(SmallContents)
  \/ Retrieve
  \/ Query
  \/ Return
Spec == Init /\ [][Next]_vars

InitIngest == InitEngine(1, 0) /\ InitCache(1) /\ InitStores /\ InitTasks
NextIngest ==
  \/ AddDocument(IngestContents)
  \/ DeleteDocument
  \/ UpdateDocument(IngestContents)
  \/ Return
SpecIngest == InitIngest /\ [][NextIngest]_vars

\* The embedding wrapper over a backend of any capacity from 1 to MaxEntries.
InitCaching == InitEngine(3, 1) /\ InitStores /\ InitTasks /\ \E m \in 1..MaxEntries : InitCache(m)
NextCaching ==
  \/ EmbedText
  \/ EmbedBatch
  \/ Return
SpecCaching == InitCaching /\ [][NextCaching]_vars

\* The cache backend on its own.
NextBackend ==
  \/ CacheGet
  \/ CacheSet
  \/ CacheDelete
  \/ CacheClear
SpecBackend == InitCaching /\ [][NextBackend]_vars

\* The three vector stores, each given the same calls.
NextStores ==
  \/ AddChunks
  \/ UpdateChunk
  \/ DeleteChunks
  \/ Search
  \/ Return
SpecStores == Init /\ [][NextStores]_vars

\* The retriever's search methods over an ingested store, for each value of
\* the configured mmr_lambda (in tenths) at either end of and inside [0, 1].
MmrLambdas == {0, 5, 10}
InitSearch ==
  /\ InitCache(1)
  /\ InitStores
  /\ InitTasks
  /\ \E l \in MmrLambdas :
       /\ chunks = <<>>
       /\ stats = [total_queries |-> 0, successful_queries |-> 0, failed_queries |-> 0,
                   total_documents |-> 0, total_chunks |-> 0]
       /\ processor = [strategy |-> "fixed_size", chunk_size |-> 3,
                       chunk_overlap |-> 1, min_chunk_size |-> 1,
                       max_chunk_size |-> 2000, dynamic_chunking |-> FALSE]
       /\ retriever_cfg = [enable_rerank |-> FALSE, query_expansion |-> FALSE,
                           mmr_lambda |-> l]
       /\ call = Idle
NextSearch ==
  \/ AddDocument(SmallContents)
  \/ DeleteDocument
  \/ HybridSearch
  \/ MmrSearch
  \/ Return
SpecSearch == InitSearch /\ [][NextSearch]_vars

\* Callers ingesting with per-call configs, on a processor with and without
\* dynamic chunking.
InitOverride ==
  /\ InitCache(1)
  /\ InitStores
  /\ InitTasks
  /\ \E dynamic_chunking \in BOOLEAN :
       /\ chunks = <<>>
       /\ stats = [total_queries |-> 0, successful_queries |-> 0, failed_queries |-> 0,
                   total_documents |-> 0, total_chunks |-> 0]
       /\ processor = [strategy |-> "fixed_size", chunk_size |-> 3,
                       chunk_overlap |-> 1, min_chunk_size |-> 1,
                       max_chunk_size |-> 2000, dynamic_chunking |-> dynamic_chunking]
       /\ retriever_cfg = [enable_rerank |-> FALSE, query_expansion |-> FALSE,
                           mmr_lambda |-> 5]
       /\ call = Idle
NextOverride ==
  \/ \E t \in TaskIds : BeginAddDocument(t)
  \/ \E t \in TaskIds : FinishAddDocument(t)
  \/ Return
SpecOverride == InitOverride /\ [][NextOverride]_vars

\* ------------------------------------------------------------- retrieval
\* C1: for every strategy, with rerank on or off and with or without the
\* keyword degrade path, retrieve never returns a result whose score is
\* below query.threshold.
C1_ThresholdRespected ==
  (call.op = "retrieve" /\ ~call.raised) =>
    \A i \in 1..Len(call.results) : call.results[i].score >= call.query.threshold

\* A reranked retrieval on the degrade path during which the filter removed
\* some result and kept another.
C1_Witness ==
  /\ call.op = "retrieve" /\ ~call.raised
  /\ call.query.rerank /\ ~call.embed_ok
  /\ call.query.threshold > 0
  /\ call.results # <<>>
  /\ Len(call.results) < Min(call.query.top_k, Len(call.dispatched))

\* C2: with no precomputed query vector and embed_text failing, retrieve
\* does not fail, whatever the strategy, and the results it has before
\* rerank, threshold and top_k are those of the keyword search for the
\* same query.
C2_DegradesToKeyword ==
  (/\ call.op = "retrieve"
   /\ call.query.query_embedding = NoVec
   /\ ~call.embed_ok
   /\ call.store_ok) =>
    /\ ~call.raised
    /\ call.dispatched =
         _keyword_search(ExpandedQuery(call.query, retriever_cfg), call.query, chunks)

\* An MMR retrieval whose embedding failed and whose keyword search found
\* chunks.
C2_Witness ==
  /\ call.op = "retrieve"
  /\ call.query.strategy = "mmr"
  /\ call.query.query_embedding = NoVec
  /\ ~call.embed_ok /\ call.store_ok
  /\ call.dispatched # <<>>

\* The failures of a query call: the strategy name is no member of
\* RetrievalStrategy, the vector store raises during retrieval, or answer
\* generation raises on the retrieved chunks.
QueryFailure ==
  \/ call.kwargs.strategy \notin Strategies
  \/ ~call.store_ok
  \/ (~call.gen_ok /\ call.response.metadata # {"no_results"})

\* C3: query never raises; when query construction, retrieval or answer
\* generation fails, it returns a response with confidence 0, no retrieved
\* chunks and the error in metadata['error'].
C3_QueryNeverRaises ==
  call.op = "query" =>
    /\ ~call.raised
    /\ QueryFailure =>
         /\ call.response.confidence.num = 0
         /\ call.response.retrieved_chunks = <<>>
         /\ "error" \in call.response.metadata

\* A query with an unknown strategy name against a store that holds chunks.
C3_Witness ==
  /\ call.op = "query"
  /\ call.kwargs.strategy = "bogus"
  /\ ~call.store_empty
  /\ "error" \in call.response.metadata

\* C4: a query against an empty vector store returns, for every strategy, a
\* response with confidence 0, no results and a non-empty canned answer,
\* and reports no error.
C4_EmptyStoreCanned ==
  (/\ call.op = "query"
   /\ call.store_empty
   /\ call.kwargs.strategy \in Strategies
   /\ call.store_ok) =>
    /\ ~call.raised
    /\ call.response.confidence.num = 0
    /\ call.response.retrieved_chunks = <<>>
    /\ call.response.answer_len > 0
    /\ "error" \notin call.response.metadata

\* A semantic-hybrid query against the empty store.
C4_Witness ==
  /\ call.op = "query"
  /\ call.store_empty /\ call.store_ok
  /\ call.kwargs.strategy = "semantic_hybrid"
  /\ call.response.answer = "no_results"

\* ------------------------------------------------------------- ingestion
\* C5: after delete_document(d) returns success, the vector store holds no
\* chunk whose doc_id is d, however many chunks d had.
C5_DeleteCascades ==
  (call.op = "delete_document" /\ ~call.raised /\ call.success) =>
    call.doc_id \notin StoreDocIds(chunks)

\* The chunks the store holds for a document, by chunk id.
ChunksOf(store, doc_id) ==
  {store[i] : i \in {j \in 1..Len(store) : store[j].doc_id = doc_id}}

\* C6: after add_document succeeds for a doc_id that was already ingested,
\* the store's chunks for that doc_id are exactly the chunks of the latest
\* ingestion.
C6_ReingestReplaces ==
  (call.op = "add_document" /\ call.success /\ call.was_ingested) =>
    ChunksOf(chunks, call.doc_id) = {call.chunks[i] : i \in 1..Len(call.chunks)}

\* ----------------------------------------------------------------- cache
\* An embed_batch call that follows embed_text calls on exactly its texts,
\* with no other call on the wrapper in between.
BatchAfterEmbedText ==
  /\ call.op = "embed_batch"
  /\ call.texts # <<>>
  /\ {call.warm[k].text : k \in 1..Len(call.warm)}
       = {call.texts[i] : i \in 1..Len(call.texts)}

\* Every element was served from the cache: the wrapped provider was not
\* called, neither miss counter moved, and each vector is the one embed_text
\* returned for the text.
AllHits ==
  /\ ~call.raised
  /\ ~call.inner_called
  /\ cache_stats.misses = call.misses_before[1]
  /\ wrapper_stats.misses = call.misses_before[2]
  /\ \A i \in 1..Len(call.texts), k \in 1..Len(call.warm) :
       call.warm[k].text = call.texts[i] => call.results[i] = call.warm[k].vec

\* C7 as stated: after embed_text on each text of a list, embed_batch on the
\* list hits the cache for every element.
C7_BatchAfterEmbedTextHits == BatchAfterEmbedText => AllHits

\* The distinct cache keys of the texts of the call.
KeysOf(texts) == {_hash_text(texts[i]) : i \in 1..Len(texts)}

\* C7, amended: after embed_text on each text of a list whose texts have at
\* most max_entries distinct cache keys, embed_batch on the list hits the
\* cache for every element.
C7_BatchHitsWithinCapacity ==
  (BatchAfterEmbedText /\ Cardinality(KeysOf(call.texts)) <= max_entries) => AllHits

\* Two texts under two keys, embedded one by one and then as a batch.
C7_Witness ==
  /\ BatchAfterEmbedText
  /\ Cardinality(KeysOf(call.texts)) = 2
  /\ max_entries >= 2
  /\ AllHits

\* The texts of the call whose key was not cached when the call started.
UncachedBefore ==
  LET idx == SelectSeq([i \in 1..Len(call.texts) |-> i],
                       LAMBDA i : call.cached_before[i] = NoVec)
  IN [j \in 1..Len(idx) |-> call.texts[idx[j]]]

C9_MismatchedCountRaises ==
  (/\ call.op = "embed_batch"
   /\ call.inner_called
   /\ call.mode \in {"fewer", "more"}) =>
    call.raised /\ call.results = <<>>

\* C10: the number of entries of a MemoryCacheBackend with max_entries >= 1
\* never exceeds max_entries, whatever get, set, delete and clear calls are
\* made on it.
C10_CacheBounded ==
  /\ Cardinality(DOMAIN cache_store) <= max_entries
  /\ Len(cache_order) <= max_entries

\* A full backend that has evicted an entry.
C10_Witness ==
  /\ max_entries >= 1
  /\ cache_stats.evictions > 0
  /\ Cardinality(DOMAIN cache_store) = max_entries

\* ---------------------------------------------------------- vector stores
\* C11: on every store, add_chunks raises when some chunk of the list has no
\* embedding.
C11_AddChunksRejectsMissingEmbedding ==
  (/\ call.op = "add_chunks"
   /\ \E i \in 1..Len(call.new) : call.new[i].embedding = NoVec) =>
    /\ call.raised.faiss
    /\ call.raised.chroma
    /\ call.raised.memory

\* The embeddings a store holds, one per stored chunk.
StoredEmbeddings ==
  [faiss |-> {faiss.vectors[i].vector : i \in 1..Len(faiss.vectors)},
   chroma |-> {chroma[i].vector : i \in 1..Len(chroma)},
   memory |-> {chunks[i].embedding : i \in 1..Len(chunks)}]

\* C12: no store ever holds a chunk whose embedding (when it has one) has a
\* length other than the store's dimension.
C12_StoredDimension ==
  \A e \in StoredEmbeddings.faiss \cup StoredEmbeddings.chroma \cup StoredEmbeddings.memory :
     e # NoVec => Len(e) = dimension

\* The chunk ids of a result list, in order.
ResultIds(results) == [i \in 1..Len(results) |-> results[i].chunk.chunk_id]

\* The FAISS-backed and the in-memory store hold the same chunks with the
\* same embeddings in the same insertion order, every one with an embedding
\* and, in the FAISS-backed store, with its row.
SameContents ==
  /\ [i \in 1..Len(faiss.vectors) |-> <<faiss.vectors[i].chunk_id, faiss.vectors[i].vector>>]
       = [i \in 1..Len(chunks) |-> <<chunks[i].chunk_id, chunks[i].embedding>>]
  /\ \A i \in 1..Len(chunks) :
       /\ chunks[i].embedding # NoVec
       /\ RowsWithId(faiss.rows, chunks[i].chunk_id) = <<RowOf(chunks[i])>>

\* C13: on stores holding the same chunks, search with the same query
\* vector, top_k and filters returns the same chunk ids in the same order
\* from the FAISS-backed store as from the in-memory store.
C13_SearchAgrees ==
  (call.op = "search" /\ SameContents) =>
    ResultIds(call.results.faiss) = ResultIds(call.results.memory)

\* The chunk has a value for the filter key, and it is the filter's value.
SatisfiesFilter(chunk, f) ==
  IF f[1] = "doc_id" THEN chunk.doc_id = f[2]
  ELSE f[1] \in ChunkMetaKeys /\ ChunkMeta(chunk, f[1]) = f[2]

\* C14: every result of a search with a non-empty filter map satisfies every
\* entry of the map.
C14_ResultsSatisfyFilters ==
  (call.op = "search" /\ call.filters # {}) =>
    \A s \in {"faiss", "chroma", "memory"} :
       \A i \in 1..Len(call.results[s]) :
          \A f \in call.filters : SatisfiesFilter(call.results[s][i].chunk, f)

\* ------------------------------------------------------- hybrid and MMR
ScoreIn(results, id, weight10) ==
  IF ResultIndex(results, id) = 0 THEN 0
  ELSE (results[ResultIndex(results, id)].score * weight10) \div 10

IdSet(results) == {results[i].chunk.chunk_id : i \in 1..Len(results)}

\* C15: the merged list of a hybrid search holds each chunk id of the vector
\* and of the keyword results once, with score 0.7 * vectorScore +
\* 0.3 * keywordScore (a set the chunk is not in contributing nothing), in
\* descending order of that score.
C15_FusedScores ==
  call.op = "hybrid_search" =>
    /\ IdSet(call.merged) = IdSet(call.vector_results) \cup IdSet(call.keyword_results)
    /\ Cardinality(IdSet(call.merged)) = Len(call.merged)
    /\ \A i \in 1..Len(call.merged) :
         call.merged[i].score =
           ScoreIn(call.vector_results, call.merged[i].chunk.chunk_id, 7)
             + ScoreIn(call.keyword_results, call.merged[i].chunk.chunk_id, 3)
    /\ \A i \in 1..(Len(call.merged) - 1) : call.merged[i].score >= call.merged[i + 1].score
    /\ ResultIds(call.results) = ResultIds(Slice(call.merged, 0, call.query.top_k))

\* A hybrid search with a chunk in both result sets, one in the vector
\* results only and one in the keyword results only, all of non-zero score.
C15_Witness ==
  /\ call.op = "hybrid_search"
  /\ \E id \in IdSet(call.vector_results) \cap IdSet(call.keyword_results) :
       ScoreIn(call.vector_results, id, 7) > 0 /\ ScoreIn(call.keyword_results, id, 3) > 0
  /\ \E id \in IdSet(call.vector_results) \ IdSet(call.keyword_results) :
       ScoreIn(call.vector_results, id, 7) > 0
  /\ \E id \in IdSet(call.keyword_results) \ IdSet(call.vector_results) :
       ScoreIn(call.keyword_results, id, 3) > 0

\* C16: _mmr_search returns exactly min(top_k, number of candidates the
\* vector search returned) results, the first being the best-scoring
\* candidate.
C16_MmrSelectsTopK ==
  call.op = "mmr_search" =>
    /\ Len(call.results) = Min(call.query.top_k, Len(call.candidates))
    /\ call.results # <<>> =>
         \A i \in 1..Len(call.candidates) : call.candidates[i].score <= call.results[1].score

\* C17: the list retrieve returns has at most top_k results, and the result
\* at position i (0-based) has rank i.
C17_FinalRanks ==
  (call.op = "retrieve" /\ ~call.raised) =>
    /\ Len(call.results) <= call.query.top_k
    /\ \A i \in 1..Len(call.results) : call.results[i].rank = i - 1

\* ------------------------------------------------- per-call overrides
\* The three attributes of the processor a config can override.
Attrs(proc) == <<proc.strategy, proc.chunk_size, proc.chunk_overlap>>

\* An add_document call with an overriding config has returned or raised,
\* and no other call was in progress during it.
OverrideCallAlone ==
  /\ call.op = "add_document_config"
  /\ OverriddenAttrs(call.config) # {}
  /\ call.peers = {}

C19_ConcurrentOverridesRestored ==
  (/\ call.op = "add_document_config"
   /\ OverriddenAttrs(call.config) # {}
   /\ call.peers # {}
   /\ \A c \in call.peers : c # call.config /\ OverriddenAttrs(c) # {}
   /\ \A t \in TaskIds : tasks[t].pc # "embed_batch"
   /\ ~call.base.dynamic_chunking) =>
    Attrs(call.after) = Attrs(call.base)

\* C20: chunking with a chunk size less than or equal to the overlap raises
\* and produces no chunks.
C20_SizeNotAboveOverlapRaises ==
  (/\ call.op = "add_document_config"
   /\ call.used.chunk_size <= call.used.chunk_overlap) =>
    /\ call.processed.raised
    /\ call.processed.chunks = <<>>

\* ------------------------------------------------- counters and tables
\* C29: stats['total_chunks'] is the number of chunks in the vector store
\* and stats['total_documents'] the number of distinct doc_ids in it.
C29_CountersTrackStore ==
  /\ stats.total_chunks = Len(chunks)
  /\ stats.total_documents = Cardinality(StoreDocIds(chunks))

\* C30: in the FAISS-backed store the chunk ids holding a vector are the
\* chunk ids holding a row of the chunks table.
C30_VectorsAndRowsSameIds ==
  {faiss.vectors[i].chunk_id : i \in 1..Len(faiss.vectors)}
    = {faiss.rows[i].chunk_id : i \in 1..Len(faiss.rows)}

\* ------------------------------------------------ the processor alone
MaxChunkSize == 3

ChunkTexts ==
  { <<"a", " ", "b">>, <<"a", "b", " ", "b", "a">>,
    <<"a", "a", "\n", "\n", "b", "b">>, <<"{", " ", "a", "b", "c">> }

ChunkDocs ==
  {MkDoc(d, c, "text") : d \in DocIds, c \in ChunkTexts}
    \cup {MkDoc("d1", <<"a", " ", "b">>, "pdf")}

\* TextDocumentProcessor(config) keeps whatever sizes the config gives.
InitChunk ==
  /\ chunks = <<>>
  /\ stats = [total_queries |-> 0, successful_queries |-> 0, failed_queries |-> 0,
              total_documents |-> 0, total_chunks |-> 0]
  /\ retriever_cfg = [enable_rerank |-> FALSE, query_expansion |-> FALSE, mmr_lambda |-> 5]
  /\ call = Idle
  /\ \E strategy \in {"fixed_size", "paragraph"}, chunk_size \in 1..MaxChunkSize,
        chunk_overlap \in 0..MaxChunkSize, min_chunk_size \in {1, 2},
        dynamic_chunking \in BOOLEAN :
       processor = [strategy |-> strategy, chunk_size |-> chunk_size,
                    chunk_overlap |-> chunk_overlap, min_chunk_size |-> min_chunk_size,
                    max_chunk_size |-> 2000, dynamic_chunking |-> dynamic_chunking]
  /\ InitCache(1) /\ InitStores /\ InitTasks

\* await processor.process_document(doc).  The caller keeps the outcome of
\* its first call next to the latest one, and whether a call between the
\* two was given another document.
ProcessDocument ==
  /\ call = Idle \/ call.op = "process_document"
  /\ \E doc \in ChunkDocs :
       LET r == process_document(doc, processor)
           outcome == [doc |-> doc, raised |-> r.raised, chunks |-> r.chunks]
       IN /\ call' = [op |-> "process_document", doc |-> doc, raised |-> r.raised,
                      chunks |-> r.chunks,
                      first |-> IF call = Idle THEN outcome ELSE call.first,
                      between |-> IF call = Idle THEN FALSE
                                  ELSE call.between \/ doc # call.first.doc]
          /\ processor' = ProcessorAfter(doc, processor)
  /\ UNCHANGED <<chunks, stats, retriever_cfg, cache_vars, store_vars, tasks>>

\* process_document on a document of a supported type, with the fixed-size
\* strategy, up to the point where _chunk_by_fixed_size is entered:
\* start = 0, chunk_index = 0, chunks = [].
BeginFixedSize ==
  /\ call = Idle
  /\ processor.strategy = "fixed_size"
  /\ \E doc \in ChunkDocs :
       /\ doc.doc_type \in SupportedTypes
       /\ processor' = ApplyProfile(doc, processor)
       /\ call' = [op |-> "_chunk_by_fixed_size", doc |-> doc,
                   text |-> _preprocess_text(doc.content),
                   s |-> [start |-> 0, chunk_index |-> 0, chunks |-> <<>>],
                   iterations |-> 0, last_start |-> 0]
  /\ UNCHANGED <<chunks, stats, retriever_cfg, cache_vars, store_vars, tasks>>

\* One pass through the body of `while start < len(text)`.  The count of
\* passes is followed up to one past len(text).
IterateFixedSize ==
  /\ call.op = "_chunk_by_fixed_size"
  /\ call.s.start < Len(call.text)
  /\ call.iterations <= Len(call.text)
  /\ call' = [call EXCEPT !.s = FixedSizeStep(call.text, call.doc.doc_id, processor, call.s),
                          !.iterations = @ + 1,
                          !.last_start = call.s.start]
  /\ UNCHANGED <<engine_vars, cache_vars, store_vars, tasks>>

NextChunk == ProcessDocument \/ BeginFixedSize \/ IterateFixedSize \/ Return
SpecChunk == InitChunk /\ [][NextChunk]_vars

\* The text process_document hands to the chunker.
ProcessedText == _preprocess_text(call.doc.content)

FixedSizeCall ==
  call.op = "process_document" /\ ~call.raised /\ processor.strategy = "fixed_size"

\* C21: the spans [start_char, end_char) of the chunks fixed-size chunking
\* emits for a text of length L cover [0, L), and two adjacent spans
\* overlap by at most chunk_overlap characters.
C21_SpansCoverText ==
  FixedSizeCall =>
    /\ \A pos \in 0..(Len(ProcessedText) - 1) :
         \E i \in 1..Len(call.chunks) :
           call.chunks[i].start_char <= pos /\ pos < call.chunks[i].end_char
    /\ \A i \in 1..(Len(call.chunks) - 1) :
         call.chunks[i].end_char - call.chunks[i + 1].start_char <= processor.chunk_overlap

\* C22: a document processed a second time by the same processor, whatever
\* was processed in between, gives the chunks (ids, boundaries, contents)
\* and the outcome of the first time.
C22_SameChunksAgain ==
  (call.op = "process_document" /\ call.doc = call.first.doc) =>
    /\ call.raised = call.first.raised
    /\ call.chunks = call.first.chunks

C22_Witness ==
  /\ call.op = "process_document" /\ call.doc = call.first.doc /\ call.between
  /\ processor.dynamic_chunking /\ call.chunks # <<>>

\* The document made of the given paragraphs with a blank line between.
RECURSIVE JoinBlank(_)
JoinBlank(ps) ==
  IF Len(ps) = 0 THEN <<>>
  ELSE IF Len(ps) = 1 THEN ps[1]
  ELSE ps[1] \o <<"\n", "\n">> \o JoinBlank(Tail(ps))

ParagraphLists ==
  { <<<<"a", "a">>, <<"b", "b">>>>, <<<<"a">>, <<"b">>>> }

\* C27: with the paragraph strategy a document of k >= 2 paragraphs, each
\* no longer than chunk_size and each adjacent pair joined longer than
\* chunk_size, is cut into k chunks.
C27_OneChunkPerParagraph ==
  \A ps \in ParagraphLists :
    ( /\ call.op = "process_document" /\ ~call.raised
      /\ processor.strategy = "paragraph"
      /\ call.doc.content = JoinBlank(ps)
      /\ \A i \in 1..Len(ps) : Len(ps[i]) <= processor.chunk_size
      /\ \A i \in 1..(Len(ps) - 1) :
           Len(ps[i]) + 2 + Len(ps[i + 1]) > processor.chunk_size )
    => Len(call.chunks) = Len(ps)

\* C28: each pass of the fixed-size loop moves the window start forward,
\* and the loop makes at most len(text) passes, whatever chunk_size and
\* chunk_overlap are.
C28_LoopEnds ==
  call.op = "_chunk_by_fixed_size" =>
    /\ call.iterations > 0 => call.s.start > call.last_start
    /\ call.iterations <= Len(call.text)

C28_Witness ==
  /\ call.op = "_chunk_by_fixed_size"
  /\ processor.chunk_overlap >= processor.chunk_size
  /\ ~(call.s.start < Len(call.text))
  /\ call.iterations = Len(call.text)
  /\ Len(call.text) >= 3

\* ------------------------------------------------ the answer's context
\* `if remaining_length > 100`
MinKept == 100

\* The for loop of RAGEngine._build_context over the lengths of the chunk
\* contents, from the i-th on: the lengths of context_parts.  A chunk that
\* does not fit ends the loop; cut to the remaining length it is kept, with
\* "..." appended, when more than MinKept characters remain.
RECURSIVE ContextParts(_, _, _, _, _)
ContextParts(lens, i, current_length, context_parts, max_context_length) ==
  IF i > Len(lens) THEN context_parts
  ELSE IF current_length + lens[i] > max_context_length
       THEN LET remaining_length == max_context_length - current_length
            IN IF remaining_length > MinKept
               THEN Append(context_parts, remaining_length + 3)
               ELSE context_parts
       ELSE ContextParts(lens, i + 1, current_length + lens[i],
                         Append(context_parts, lens[i]), max_context_length)

\* len("\n\n".join(context_parts))
JoinedLength(parts) ==
  IF Len(parts) = 0 THEN 0 ELSE SumSeq(parts) + 2 * (Len(parts) - 1)

\* The length of the string _build_context returns for chunks whose
\* contents have the given lengths.
_build_context(lens, max_context_length) ==
  JoinedLength(ContextParts(lens, 1, 0, <<>>, max_context_length))

ContentLengths == {1, 60, 120}
ContextLimits == {120, 150, 4000}

LengthLists ==
  UNION {[1..n -> ContentLengths] : n \in 0..MaxTopK}

\* self._build_context(retrieved_chunks) on an engine configured with
\* max_context_length.
BuildContext ==
  /\ call = Idle
  /\ \E lens \in LengthLists, max_context_length \in ContextLimits :
       call' = [op |-> "_build_context", lens |-> lens,
                max_context_length |-> max_context_length,
                context_length |-> _build_context(lens, max_context_length)]
  /\ UNCHANGED <<engine_vars, cache_vars, store_vars, tasks>>

NextContext == BuildContext \/ Return
SpecContext == Init /\ [][NextContext]_vars

\* C24: the context string built from the retrieved chunks is never longer
\* than max_context_length characters.
C24_ContextWithinLimit ==
  call.op = "_build_context" => call.context_length <= call.max_context_length

\* ------------------------------------------- the backend and its users
BackendKeys == {"k1", "k2", "k3"}

\* What the user of the backend has seen: for each key the number and the
\* kind of the last get that hit or set that stored it, and the last call
\* with the keys stored, the uses and the evictions it found.
Uses == IF call = Idle THEN <<>> ELSE call.uses

Touched(uses, key, op, c) ==
  [k \in DOMAIN uses \cup {key} |->
     IF k = key THEN [at |-> c.stats.total_requests + c.stats.sets, op |-> op]
     ELSE uses[k]]

BackendCall(op, key, c, uses) ==
  /\ BackendIs(c)
  /\ call' = [op |-> "backend", uses |-> uses,
              last |-> [op |-> op, key |-> key, stored |-> DOMAIN cache_store,
                        uses |-> Uses, evictions |-> cache_stats.evictions]]

\* backend.get(key)
BackendGet ==
  /\ cache_stats.total_requests + cache_stats.sets < MaxCacheOps
  /\ \E key \in BackendKeys :
       LET r == get(Backend, key)
       IN BackendCall("get", key, r.cache,
                      IF r.value = NoVec THEN Uses ELSE Touched(Uses, key, "get", r.cache))
  /\ UNCHANGED <<engine_vars, store_vars, tasks, max_entries, wrapper_stats, warm>>

\* backend.set(key, value)
BackendSet ==
  /\ cache_stats.total_requests + cache_stats.sets < MaxCacheOps
  /\ \E key \in BackendKeys :
       LET c == set(Backend, key, <<1, 0>>)
       IN BackendCall("set", key, c, Touched(Uses, key, "set", c))
  /\ UNCHANGED <<engine_vars, store_vars, tasks, max_entries, wrapper_stats, warm>>

\* backend.delete(key)
BackendDelete ==
  /\ \E key \in BackendKeys : BackendCall("delete", key, delete(Backend, key), Uses)
  /\ UNCHANGED <<engine_vars, store_vars, tasks, max_entries, wrapper_stats, warm>>

\* backend.clear(): the counters start again, and so does the user.
BackendClear ==
  /\ BackendCall("clear", "k1", clear(Backend), <<>>)
  /\ UNCHANGED <<engine_vars, store_vars, tasks, max_entries, wrapper_stats, warm>>

NextLru == BackendGet \/ BackendSet \/ BackendDelete \/ BackendClear
SpecLru == InitCaching /\ [][NextLru]_vars

\* The stored key used least recently before the last call.
Oldest(last, k) ==
  k \in last.stored /\ \A o \in last.stored : last.uses[k].at <= last.uses[o].at

\* C25: a set of a new key while max_entries keys are stored evicts exactly
\* one key, the one whose last get that hit or set is the oldest, and adds
\* 1 to evictions; a set of a stored key evicts nothing.
C25_EvictsLeastRecentlyUsed ==
  (call.op = "backend" /\ call.last.op = "set") =>
    /\ ( call.last.key \notin call.last.stored
         /\ Cardinality(call.last.stored) = max_entries )
       => \E victim \in call.last.stored :
            /\ Oldest(call.last, victim)
            /\ DOMAIN cache_store = (call.last.stored \ {victim}) \cup {call.last.key}
            /\ cache_stats.evictions = call.last.evictions + 1
    /\ call.last.key \in call.last.stored
       => /\ DOMAIN cache_store = call.last.stored
          /\ cache_stats.evictions = call.last.evictions

C25_Witness ==
  /\ call.op = "backend" /\ call.last.op = "set"
  /\ call.last.key \notin call.last.stored
  /\ Cardinality(call.last.stored) = max_entries
  /\ max_entries >= 2
  /\ \E k \in call.last.stored \cap DOMAIN cache_store : call.last.uses[k].op = "get"

\* --------------------------------------------------------- retry_async
MaxAttempts == 3

\* The classes an exception of the given class is an instance of.
ClassesOf ==
  [RAGError |-> {"RAGError", "Exception", "BaseException"},
   ValueError |-> {"ValueError", "Exception", "BaseException"},
   CancelledError |-> {"CancelledError", "BaseException"}]

\* What one call of func can end with.
FuncOutcomes ==
  {[kind |-> "value", of |-> v] : v \in {"r1", "r2"}}
    \cup {[kind |-> "exc", of |-> e] : e \in DOMAIN ClassesOf}

\* The values of the `exceptions` parameter: the default, the one
\* DocumentService passes, and a narrower one.
ExceptionTuples == {{"Exception"}, {"RAGError", "Exception"}, {"RAGError"}}

\* `except exceptions as e` takes the outcome.
Caught(outcome, exceptions) ==
  outcome.kind = "exc" /\ ClassesOf[outcome.of] \cap exceptions # {}

\* `if attempt >= attempts: break`, with `>` for `>=`.
PastLastAttempt(attempt, attempts) == attempt > attempts

\* `if attempt >= attempts: break`
LastAttempt(attempt, attempts) == attempt >= attempts

\* delay = min(base_delay * 2 ** (attempt - 1), max_delay), in milliseconds.
Backoff(attempt, base_delay, max_delay) == Min(base_delay * 2 ^ (attempt - 1), max_delay)

\* retry_async(func, attempts=..., exceptions=...) is entered: the first
\* pass of `for attempt in range(1, attempts + 1)` is about to call func.
\* base_delay and max_delay are the ones DocumentService passes, 0.5 s and
\* 3.0 s; jitter is the default 0.2.
BeginRetry ==
  /\ call = Idle
  /\ \E attempts \in 1..MaxAttempts, exceptions \in ExceptionTuples :
       call' = [op |-> "retry_async", attempts |-> attempts, exceptions |-> exceptions,
                base_delay |-> 500, max_delay |-> 3000, jitter |-> 200,
                attempt |-> 1, pc |-> "call", log |-> <<>>, sleeps |-> <<>>]
  /\ UNCHANGED <<engine_vars, cache_vars, store_vars, tasks>>

\* await func(**kwargs) ends, lines 44-49: a value is returned, an
\* exception outside `exceptions` propagates, a caught one is kept as
\* last_exc and on the last attempt raised, else a sleep follows.
RetryCall ==
  /\ call.op = "retry_async" /\ call.pc = "call"
  /\ \E outcome \in FuncOutcomes :
       call' = [call EXCEPT
                  !.log = Append(@, outcome),
                  !.pc = IF outcome.kind = "value" THEN "returned"
                         ELSE IF ~Caught(outcome, call.exceptions) THEN "raised"
                         ELSE IF LastAttempt(call.attempt, call.attempts) THEN "raised"
                         ELSE "sleep"]
  /\ UNCHANGED <<engine_vars, cache_vars, store_vars, tasks>>

\* await asyncio.sleep(delay), lines 51-56, with random.uniform(0, jitter)
\* at one of its two ends; then the next pass of the for loop, or past the
\* loop `raise last_exc`.
RetrySleep ==
  /\ call.op = "retry_async" /\ call.pc = "sleep"
  /\ \E fraction \in {0, call.jitter} :
       LET delay == Backoff(call.attempt, call.base_delay, call.max_delay)
       IN call' = [call EXCEPT
                     !.sleeps = Append(@, delay + (delay * fraction) \div 1000),
                     !.attempt = @ + 1,
                     !.pc = IF call.attempt + 1 > call.attempts THEN "raised" ELSE "call"]
  /\ UNCHANGED <<engine_vars, cache_vars, store_vars, tasks>>

NextRetry == BeginRetry \/ RetryCall \/ RetrySleep \/ Return
SpecRetry == Init /\ [][NextRetry]_vars

UpdateContents == { <<"a", "b">>, <<"b">>, <<"a", "a", "b">> }

\* update_document(document) by caller t, lines 612-619 and add_document
\* up to `await embed_batch`: the chunks delete_document lists are deleted,
\* the document is chunked, and the call suspends (or leaves, when
\* process_document raised or produced nothing).
BeginUpdateDocument(t) ==
  /\ call = Idle
  /\ tasks[t].pc = "idle"
  /\ \E doc_id \in DocIds, content \in UpdateContents :
       LET deleted == delete_document(doc_id, chunks, stats)
       IN /\ chunks' = deleted.store
          /\ stats' = deleted.stats
          /\ BeginWith(t, MkDoc(doc_id, content, "text"), <<>>, processor)
  /\ UNCHANGED <<retriever_cfg, cache_vars, store_vars>>

NextUpdate ==
  \/ \E t \in TaskIds : BeginUpdateDocument(t)
  \/ \E t \in TaskIds : FinishAddDocument(t)
  \/ Return
SpecUpdate == InitIngest /\ [][NextUpdate]_vars

\* The chunks the store holds for a document.
StoredFor(doc_id) == SelectSeq(chunks, LAMBDA c : c.doc_id = doc_id)

\* The chunks a version of the document is stored as.
VersionChunks(doc_id, content) ==
  EmbedChunks(process_document(MkDoc(doc_id, content, "text"), processor).chunks)

\* C26: once concurrent update_document calls for one doc_id have all
\* completed, every chunk stored for that doc_id comes from one and the
\* same version of the document.
C26_OneVersionStored ==
  ( /\ \A t \in TaskIds : tasks[t].pc = "done"
    /\ call.op = "add_document_config" /\ call.peers # {} )
  => \E content \in UpdateContents :
       \A i \in 1..Len(StoredFor(call.doc.doc_id)) :
         \E j \in 1..Len(VersionChunks(call.doc.doc_id, content)) :
           StoredFor(call.doc.doc_id)[i] = VersionChunks(call.doc.doc_id, content)[j]

====
